---- MODULE Spec2Model ----
(***************************************************************************)
(* Game identifier resolution of the VMUPro save converter                 *)
(* (src/vmupro_converter.py): catalog loading, fuzzy id matching, hyphen   *)
(* variations, id extraction from paths, the resolver, the batch scan, the *)
(* search scorer and result list, the reconciliation dialogs with the      *)
(* manual-mapping file, the conversion, the folder metadata and the        *)
(* catalog download.                                                       *)
(*                                                                         *)
(* A Python str is a sequence of one-character strings; the Python value   *)
(* None is the one-element sequence None below, which no str can equal.    *)
(***************************************************************************)
EXTENDS Integers, Sequences, FiniteSets, TLC

VARIABLES
    redump_db,           \* self.redump_db: the catalog, a dict in insertion order
    gid_to_traditional,  \* self.gid_to_traditional: GID### -> traditional id
    manual_mappings,     \* self.manual_mappings: detected key -> id
    folders,             \* the source tree: os.walk's folders in walk order, each [root, files]
    source_files,        \* self.source_files: what the last scan recorded
    unknown_games,       \* self.unknown_games: the unresolved groups of the last scan
    hide_unknown,        \* self.hide_unknown: the "Hide Unknown" checkbox
    wizard,              \* the reconciliation wizard: open, current_index, mappings
    mappings_file,       \* manual_mappings.json on disk
    worker,              \* the conversion thread and the files_to_convert it was given
    output,              \* the files below <output>/Dreamcast: (game id, channel) -> source
    db_files,            \* the catalog files of the working directory: txt, json
    downloader,          \* the download thread: its position, its CSV, downloader.games
    call,                \* the operation last run and its arguments
    ret,                 \* what it returned
    prev                 \* the call/ret pair of the run before it, if any

vars == <<redump_db, gid_to_traditional, manual_mappings, folders, source_files,
          unknown_games, hide_unknown, wizard, mappings_file, worker, output,
          db_files, downloader, call, ret, prev>>

\* the variables of the dialogs, of the conversion and of the download
session == <<hide_unknown, wizard, mappings_file, worker, output, db_files, downloader>>

(***************************************************************************)
(* Python str primitives                                                   *)
(***************************************************************************)
None == <<"None">>

UpperSeq == <<"A","B","C","D","E","F","G","H","I","J","K","L","M",
              "N","O","P","Q","R","S","T","U","V","W","X","Y","Z">>
LowerSeq == <<"a","b","c","d","e","f","g","h","i","j","k","l","m",
              "n","o","p","q","r","s","t","u","v","w","x","y","z">>
UpperLetters == {UpperSeq[i] : i \in DOMAIN UpperSeq}
LowerLetters == {LowerSeq[i] : i \in DOMAIN LowerSeq}
Digits == {"0","1","2","3","4","5","6","7","8","9"}
Whitespace == {" "}
AlnumUpper == UpperLetters \cup Digits

IndexIn(seq, c) == CHOOSE i \in DOMAIN seq : seq[i] = c

\* str.upper() and str.lower(), character by character
UpperChar(c) == IF c \in LowerLetters THEN UpperSeq[IndexIn(LowerSeq, c)] ELSE c
LowerChar(c) == IF c \in UpperLetters THEN LowerSeq[IndexIn(UpperSeq, c)] ELSE c
upper(s) == [i \in DOMAIN s |-> UpperChar(s[i])]
lower(s) == [i \in DOMAIN s |-> LowerChar(s[i])]

\* s[i:] and s[:n] of Python, 1-based here
Drop(s, n) == IF n >= Len(s) THEN <<>> ELSE SubSeq(s, n + 1, Len(s))
Take(s, n) == IF n >= Len(s) THEN s ELSE SubSeq(s, 1, n)

\* length of the longest prefix of s made of characters of class cls
RECURSIVE RunLen(_, _)
RunLen(s, cls) == IF s = <<>> \/ Head(s) \notin cls THEN 0 ELSE 1 + RunLen(Tail(s), cls)

RECURSIVE lstrip(_)
lstrip(s) == IF s # <<>> /\ Head(s) \in Whitespace THEN lstrip(Tail(s)) ELSE s
RECURSIVE rstripChars(_, _)
rstripChars(s, cls) ==
    IF s # <<>> /\ s[Len(s)] \in cls THEN rstripChars(SubSeq(s, 1, Len(s) - 1), cls) ELSE s
\* str.strip()
strip(s) == rstripChars(lstrip(s), Whitespace)

\* s.replace(c, '') for every c of cls
RemoveChars(s, cls) == SelectSeq(s, LAMBDA c : c \notin cls)

\* s.startswith(p)
startswith(s, p) == Len(p) <= Len(s) /\ SubSeq(s, 1, Len(p)) = p
\* p in s (substring)
contains(s, p) == \E i \in 0..(Len(s) - Len(p)) : SubSeq(s, i + 1, i + Len(p)) = p

\* s.split(sep) for a one-character separator: the list of fields, empty ones kept
RECURSIVE splitOn(_, _)
splitOn(s, sep) ==
    LET n == RunLen(s, {c \in {s[i] : i \in DOMAIN s} : c # sep})
    IN  IF n = Len(s) THEN <<s>> ELSE <<Take(s, n)>> \o splitOn(Drop(s, n + 1), sep)

\* s.split(): the whitespace-separated words, none empty
RECURSIVE split(_)
split(s) ==
    LET t == lstrip(s)
        n == RunLen(t, {c \in {t[i] : i \in DOMAIN t} : c \notin Whitespace})
    IN  IF t = <<>> THEN <<>> ELSE <<Take(t, n)>> \o split(Drop(t, n))

Range(f) == {f[i] : i \in DOMAIN f}

RECURSIVE Concat(_)
Concat(ss) == IF ss = <<>> THEN <<>> ELSE Head(ss) \o Concat(Tail(ss))

(***************************************************************************)
(* The catalog: a dict in insertion order is a sequence of records with    *)
(* distinct ids.                                                           *)
(***************************************************************************)
Keys(db) == {db[i].id : i \in DOMAIN db}
HasKey(db, k) == \E i \in DOMAIN db : db[i].id = k
Lookup(db, k) == db[CHOOSE i \in DOMAIN db : db[i].id = k]
\* d[k] = rec: a new key goes last, an old key keeps its place
Put(db, rec) ==
    IF HasKey(db, rec.id)
    THEN [i \in DOMAIN db |-> IF db[i].id = rec.id THEN rec ELSE db[i]]
    ELSE Append(db, rec)

\* a Python dict with str keys whose order is never read: a function
EmptyDict == [k \in {} |-> None]
DictPut(d, k, v) == [x \in DOMAIN d \cup {k} |-> IF x = k THEN v ELSE d[x]]

GIDPrefix == <<"G", "I", "D">>

\* load_pipe_delimited_db, one parsed line |region|title|game_id| at a time;
\* st is [games, gid_map]
LoadLine(st, line) ==
    LET rec == [id |-> line.id, title |-> line.title, region |-> line.region]
        stored == IF HasKey(st.games, line.id) THEN st.games ELSE Append(st.games, rec)
    IN  IF line.id = <<>> \/ line.title = <<>> THEN st
        ELSE IF startswith(line.id, GIDPrefix) THEN [st EXCEPT !.games = stored]
        ELSE LET gids == {k \in Keys(stored) :
                             startswith(k, GIDPrefix) /\ Lookup(stored, k).title = line.title}
             IN  [games   |-> IF gids = {} THEN stored ELSE Put(stored, rec),
                  gid_map |-> [k \in DOMAIN st.gid_map \cup gids |->
                                  IF k \in gids THEN line.id ELSE st.gid_map[k]]]

RECURSIVE LoadLines(_, _)
LoadLines(st, lines) ==
    IF lines = <<>> THEN st ELSE LoadLines(LoadLine(st, Head(lines)), Tail(lines))

load_pipe_delimited_db(lines) == LoadLines([games |-> <<>>, gid_map |-> EmptyDict], lines)

(***************************************************************************)
(* generate_hyphen_variations                                              *)
(***************************************************************************)
\* the three runs every pattern of the table reads: letters, digits, letters
Shape(clean_id) ==
    LET l == RunLen(clean_id, UpperLetters)
        d == RunLen(Drop(clean_id, l), Digits)
        t == RunLen(Drop(clean_id, l + d), UpperLetters)
    IN  [l |-> l, d |-> d, t |-> t, whole |-> (l + d + t = Len(clean_id)),
         letters |-> Take(clean_id, l),
         digits  |-> Take(Drop(clean_id, l), d),
         tail    |-> Take(Drop(clean_id, l + d), t)]

\* the pattern table, in source order. l, d, t are the lengths allowed for the
\* letter run, the digit run and the trailing letter run (max -1: no limit);
\* cut > 0 splits the digit run into groups of cut and d - cut digits.
Rule(lmin, lmax, dmin, dmax, tmin, tmax, cut, fmts) ==
    [lmin |-> lmin, lmax |-> lmax, dmin |-> dmin, dmax |-> dmax,
     tmin |-> tmin, tmax |-> tmax, cut |-> cut, fmts |-> fmts]

F012 == "{0}-{1}-{2}"
F0_12 == "{0}-{1}{2}"
F01 == "{0}-{1}"

patterns == <<
    Rule(1, 1, 4, 4, 1, 1, 0, <<F0_12>>),          \* ^([A-Z]{1})(\d{4})([A-Z]{1})$
    Rule(1, 1, 5, 5, 0, 0, 4, <<F012, F0_12>>),    \* ^([A-Z]{1})(\d{4})(\d{1})$
    Rule(1, 1, 5, 5, 1, 1, 0, <<F012, F0_12>>),    \* ^([A-Z]{1})(\d{5})([A-Z]{1})$
    Rule(2, 3, 4, 4, 0, 0, 0, <<F01>>),            \* ^([A-Z]{2,3})(\d{4})$
    Rule(2, 3, 5, 6, 0, 0, 4, <<F012, F0_12>>),    \* ^([A-Z]{2,3})(\d{4})(\d{1,2})$
    Rule(2, 2, 6, 6, 0, 0, 5, <<F012, F0_12>>),    \* ^([A-Z]{2})(\d{5})(\d{1})$
    Rule(2, 2, 7, 7, 0, 0, 5, <<F012, F0_12>>),    \* ^([A-Z]{2})(\d{5})(\d{2})$
    Rule(2, 2, 6, 6, 0, 0, 4, <<F012, F0_12>>),    \* ^([A-Z]{2})(\d{4})(\d{2})$
    Rule(0, 0, 7, 7, 0, 0, 3, <<F01>>),            \* ^(\d{3})(\d{4})$
    Rule(1, 1, 5, 5, 1, 1, 0, <<F012, F0_12>>),    \* ^([A-Z]{1})(\d{5})([A-Z]{1})$
    Rule(1, 1, 5, 5, 1, 1, 0, <<F012, F0_12>>),    \* ^([A-Z]{1})(\d{5})([A-Z]{1})$
    Rule(1, 2, 5, 6, 0, 1, 0, <<F012, F0_12>>),    \* ^([A-Z]{1,2})(\d{5,6})([A-Z]?)$
    Rule(3, 3, 5, 5, 0, 0, 0, <<F01>>),            \* ^([A-Z]{3})(\d{5})$
    Rule(1, -1, 1, -1, 0, -1, 0, <<F0_12, F012>>)  \* ^([A-Z]+)(\d+)([A-Z]*)$
>>

Within(n, lo, hi) == lo <= n /\ (hi = -1 \/ n <= hi)

\* re.match(pattern_regex, clean_id)
RuleMatches(r, sh) ==
    /\ sh.whole
    /\ Within(sh.l, r.lmin, r.lmax)
    /\ Within(sh.d, r.dmin, r.dmax)
    /\ Within(sh.t, r.tmin, r.tmax)

\* match.groups()
Groups(r, sh) ==
    IF r.cut > 0
    THEN IF r.lmax = 0
         THEN <<Take(sh.digits, r.cut), Drop(sh.digits, r.cut)>>
         ELSE <<sh.letters, Take(sh.digits, r.cut), Drop(sh.digits, r.cut)>>
    ELSE IF r.fmts = <<F01>> THEN <<sh.letters, sh.digits>>
    ELSE <<sh.letters, sh.digits, sh.tail>>

\* the last group left out of the formatted variation
FormatDropsLast(fmt, g) ==
    rstripChars(g[1] \o <<"-">> \o g[2], {"-"})

\* fmt.format(*groups).rstrip('-')
Format(fmt, g) ==
    rstripChars(
        CASE fmt = F012  -> g[1] \o <<"-">> \o g[2] \o <<"-">> \o g[3]
          [] fmt = F0_12 -> g[1] \o <<"-">> \o g[2] \o g[3]
          [] fmt = F01   -> g[1] \o <<"-">> \o g[2],
        {"-"})

\* the set the function returns (a Python set: its iteration order is not fixed)
generate_hyphen_variations(game_id) ==
    LET clean_id == RemoveChars(game_id, {"-", "_"})
        sh == Shape(clean_id)
        hit == {k \in DOMAIN patterns : RuleMatches(patterns[k], sh)}
        made == UNION {{Format(patterns[i].fmts[j], Groups(patterns[i], sh)) :
                          j \in DOMAIN patterns[i].fmts} : i \in hit}
    IN  {v \in made : v # <<>>}

(***************************************************************************)
(* fuzzy_match_game_id                                                     *)
(***************************************************************************)
Separators == {"-", "_"}

\* the stripped comparison left out
StrippedMatchSkipped(stripped_input) == None

\* the stripped form returned in place of the catalog key it equals
StrippedMatchReturnsStripped(stripped_input) ==
    IF \E i \in DOMAIN redump_db : RemoveChars(redump_db[i].id, {"-", "_"}) = stripped_input
    THEN stripped_input ELSE None

\* lines 1562-1565: the first catalog key, in catalog order, whose stripped form
\* is the stripped input; None when there is none
StrippedMatch(stripped_input) ==
    LET hits == {i \in DOMAIN redump_db :
                    RemoveChars(redump_db[i].id, Separators) = stripped_input}
    IN  IF hits = {} THEN None
        ELSE redump_db[CHOOSE i \in hits : \A j \in hits : i <= j].id

\* lines 1567-1574: the loop over the set of variations returns the first one, in
\* the set's iteration order, that is a catalog key; every order is possible
VariationMatch(potential_id) ==
    LET found == generate_hyphen_variations(potential_id) \cap Keys(redump_db)
    IN  IF found = {} THEN {None} ELSE found

\* lines 1543-1547 and 1556-1560: a GID that the alias table knows
AliasMatch(id) == startswith(id, GIDPrefix) /\ id \in DOMAIN gid_to_traditional

\* the direct lookup left out
DirectMatchNever(id) == FALSE

\* lines 1549-1551
DirectMatch(id) == HasKey(redump_db, id)

\* the set of values the call can return
fuzzy_match_game_id(potential_id) ==
    IF potential_id = <<>> THEN {None}
    ELSE LET id == strip(upper(potential_id))
             stripped_input == RemoveChars(id, Separators)
         IN  IF AliasMatch(id) THEN {gid_to_traditional[id]}
             ELSE IF DirectMatch(id) THEN {id}
             ELSE IF AliasMatch(stripped_input) THEN {gid_to_traditional[stripped_input]}
             ELSE IF StrippedMatch(stripped_input) # None
             THEN {StrippedMatch(stripped_input)}
             ELSE VariationMatch(id)

(***************************************************************************)
(* extract_game_id                                                         *)
(***************************************************************************)
\* Each template gives the length of its match at the start of s, 0 for no match.
AllDigits(s, from, n) ==
    Len(s) >= from + n - 1 /\ \A i \in from..(from + n - 1) : s[i] \in Digits
Min(a, b) == IF a <= b THEN a ELSE b

\* [A-Z]{1,3}-\d{4,6}(?:-[A-Z0-9]{1,2})?
MatchHyphenated(s) ==
    LET l == RunLen(s, UpperLetters)
        d == Min(RunLen(Drop(s, l + 1), Digits), 6)
        rest == Drop(s, l + 1 + d)
        x == IF rest # <<>> /\ Head(rest) = "-"
             THEN Min(RunLen(Tail(rest), AlnumUpper), 2) ELSE 0
    IN  IF l \in 1..3 /\ Len(s) > l /\ s[l + 1] = "-" /\ d >= 4
        THEN l + 1 + d + (IF x > 0 THEN x + 1 ELSE 0) ELSE 0

\* [A-Z]{1,3}\d{4,7}[A-Z]?
MatchUnhyphenated(s) ==
    LET l == RunLen(s, UpperLetters)
        d == Min(RunLen(Drop(s, l), Digits), 7)
        rest == Drop(s, l + d)
    IN  IF l \in 1..3 /\ d >= 4
        THEN l + d + (IF rest # <<>> /\ Head(rest) \in UpperLetters THEN 1 ELSE 0) ELSE 0

\* \d{3}-\d{4}
MatchNumericHyphen(s) ==
    IF AllDigits(s, 1, 3) /\ Len(s) >= 4 /\ s[4] = "-" /\ AllDigits(s, 5, 4) THEN 8 ELSE 0

\* \d{7}
MatchSevenDigits(s) == IF AllDigits(s, 1, 7) THEN 7 ELSE 0

\* GID\d{3}
MatchGID(s) == IF startswith(s, GIDPrefix) /\ AllDigits(s, 4, 3) THEN 6 ELSE 0

\* [A-Z]{3,10}
MatchWord(s) ==
    LET l == RunLen(s, UpperLetters) IN IF l >= 3 THEN Min(l, 10) ELSE 0

\* the templates with the GID template tried first
potential_patterns_gid_first ==
    <<"gid", "hyphenated", "unhyphenated", "numeric", "digits7", "word">>

\* lines 1639-1646, in the order of the list
potential_patterns == <<"hyphenated", "unhyphenated", "numeric", "digits7", "gid", "word">>

MatchAt(pattern, s) ==
    CASE pattern = "hyphenated"   -> MatchHyphenated(s)
      [] pattern = "unhyphenated" -> MatchUnhyphenated(s)
      [] pattern = "numeric"      -> MatchNumericHyphen(s)
      [] pattern = "digits7"      -> MatchSevenDigits(s)
      [] pattern = "gid"          -> MatchGID(s)
      [] pattern = "word"         -> MatchWord(s)

\* re.findall(pattern, s): the non-overlapping matches, leftmost first
RECURSIVE findall(_, _)
findall(pattern, s) ==
    IF s = <<>> THEN <<>>
    ELSE LET n == MatchAt(pattern, s)
         IN  IF n > 0 THEN <<Take(s, n)>> \o findall(pattern, Drop(s, n))
             ELSE findall(pattern, Tail(s))

\* lines 1648-1651
Candidates(path) ==
    Concat([i \in DOMAIN potential_patterns |-> findall(potential_patterns[i], upper(path))])

Reverse(seq) == [i \in DOMAIN seq |-> seq[Len(seq) + 1 - i]]

\* lines 1661-1665: the non-empty path segments, last first, each cut at its
\* first dot and trimmed
CleanParts(path) ==
    LET parts == splitOn([i \in DOMAIN path |-> IF path[i] = "\\" THEN "/" ELSE path[i]], "/")
        kept == SelectSeq(Reverse(parts), LAMBDA part : part # <<>>)
    IN  [i \in DOMAIN kept |-> strip(Head(splitOn(kept[i], ".")))]

\* the test of the match left out
TruthyAlways(outcomes) == TRUE

\* `if matched_id:` of Python
Truthy(outcomes) == outcomes # {None} /\ outcomes # {<<>>}

UNKNOWN == <<"U", "N", "K", "N", "O", "W", "N">>

\* the set of values the call can return: the outcomes of the first try that matches
extract_game_id(path) ==
    LET tries == Candidates(path) \o CleanParts(path)
        hits == {i \in DOMAIN tries : Truthy(fuzzy_match_game_id(tries[i]))}
    IN  IF hits = {} THEN {UNKNOWN}
        ELSE fuzzy_match_game_id(tries[CHOOSE i \in hits : \A j \in hits : i <= j])

(***************************************************************************)
(* load_database: the state after construction                             *)
(***************************************************************************)
\* parse_csv_content, whose games the JSON database holds: first line of an id wins
RECURSIVE parse_csv_content(_, _)
parse_csv_content(games, rows) ==
    IF rows = <<>> THEN games
    ELSE LET r == Head(rows)
             rec == [id |-> r.id, title |-> r.title, region |-> r.region]
         IN  parse_csv_content(
                 IF r.id # <<>> /\ r.title # <<>> /\ ~HasKey(games, r.id)
                 THEN Append(games, rec) ELSE games,
                 Tail(rows))

\* kind "txt": vmupro_gamedb.txt exists; kind "json": only the JSON database does
load_database(kind, lines) ==
    IF kind = "txt" THEN load_pipe_delimited_db(lines)
    ELSE [games |-> parse_csv_content(<<>>, lines), gid_map |-> EmptyDict]

(***************************************************************************)
(* The strings the model draws catalogs and inputs from                    *)
(***************************************************************************)
T_1201N == <<"T", "-", "1", "2", "0", "1", "N">>
GID028 == <<"G", "I", "D", "0", "2", "8">>
MK_51190_50 == <<"M", "K", "-", "5", "1", "1", "9", "0", "-", "5", "0">>
HDR_0178 == <<"H", "D", "R", "-", "0", "1", "7", "8">>
N610_7390 == <<"6", "1", "0", "-", "7", "3", "9", "0">>
T_1201 == <<"T", "-", "1", "2", "0", "1">>
T_1201_N == <<"T", "-", "1", "2", "0", "1", "-", "N">>
T_12015 == <<"T", "-", "1", "2", "0", "1", "5">>
T_1201_5 == <<"T", "-", "1", "2", "0", "1", "-", "5">>
Hashes == <<"#", "#", "#">>
MK511905 == <<"M", "K", "5", "1", "1", "9", "0", "5">>
Sonic == <<"S", "o", "n", "i", "c">>
Virtua == <<"V", "i", "r", "t", "u", "a">>
US == <<"U", "S">>

Line(region, title, id) == [region |-> region, title |-> title, id |-> id]

\* the lines a catalog file is made of; ids are in upper case, as the matcher
\* upper-cases every candidate before it compares
GameLines == {
    Line(US, Sonic, T_1201N), Line(US, Sonic, GID028), Line(US, Virtua, MK_51190_50),
    Line(US, <<"H">>, HDR_0178), Line(US, <<"N">>, N610_7390), Line(US, <<"P">>, T_1201),
    Line(US, <<"V">>, T_1201_N), Line(US, <<"W">>, T_12015), Line(US, <<"X">>, T_1201_5),
    Line(US, <<"Z">>, Hashes) }

MaxLines == 2
CatalogFiles == UNION {[1..n -> GameLines] : n \in 0..MaxLines}

GameIds == {l.id : l \in GameLines}

\* candidates: the catalog ids, their separator-free forms, and forms that differ
\* from an id in case, surrounding blanks or separators
MatchInputs ==
    GameIds \cup {RemoveChars(k, Separators) : k \in GameIds}
    \cup {MK511905, <<>>, <<" ">>, <<"X", "Y", "Z">>,
          <<"t", "-", "1", "2", "0", "1", "n">>,
          <<" ", "t", "1", "2", "0", "1", "n", " ">>,
          <<"G", "I", "D", "-", "0", "2", "8">>,
          <<"T", "_", "1", "2", "0", "1", "N">>}

ExtractInputs ==
    {<<>>, Hashes, T_1201N, T_1201, MK511905,
     <<"s", "a", "v", "e", "s", "/", "T", "1", "2", "0", "1", "N", "/", "a", ".", "v", "m", "u">>,
     <<"G", "I", "D", "0", "2", "8", ".", "v", "m", "u">>,
     <<"x", "\\", "h", "d", "r", "0", "1", "7", "8">>,
     <<"a", "/", "#", "#", "#", ".", "x", "/">>,
     <<"6", "1", "0", "7", "3", "9", "0", "_", "T", "1", "2", "0", "1", "5">>,
     <<"G", "I", "D", "0", "2", "8", "_", "h", "d", "r", "0", "1", "7", "8">>}

NoCall == [op |-> "init"]

\* no wizard open, no conversion running
NoWizard == [open |-> FALSE, current_index |-> 0, mappings |-> EmptyDict]
Idle == [running |-> FALSE, files_to_convert |-> <<>>]

\* no catalog file in the working directory (a dict from the name of a file to
\* its records), no download started
NoDbFiles == EmptyDict
NoDownload == [pc |-> "idle", csv |-> <<>>, rows |-> <<>>, games |-> <<>>, started |-> 0]

\* lines 292-301 read backwards: the file a loaded table came from; state is
\* "absent", "complete" (the JSON text of table) or "partial" (a cut text), saves
\* counts the calls of save_manual_mappings
Persisted(table) ==
    [state |-> IF table = EmptyDict THEN "absent" ELSE "complete", table |-> table,
     saves |-> 0]

\* lines 193-199
InitSession ==
    /\ hide_unknown = FALSE
    /\ wizard = NoWizard
    /\ mappings_file = Persisted(manual_mappings)
    /\ worker = Idle
    /\ output = EmptyDict
    /\ db_files = NoDbFiles
    /\ downloader = NoDownload

\* the variables the matching operations never write
InitRest ==
    /\ manual_mappings = EmptyDict
    /\ folders = <<>>
    /\ source_files = <<>>
    /\ unknown_games = <<>>
    /\ InitSession
    /\ call = NoCall
    /\ ret = None
    /\ prev = <<>>

InitCatalog ==
    \E lines \in CatalogFiles, kind \in {"txt", "json"} :
        /\ redump_db = load_database(kind, lines).games
        /\ gid_to_traditional = load_database(kind, lines).gid_map

InitMatch == InitCatalog /\ InitRest

Returns(op, arg, r) ==
    /\ call' = [op |-> op, arg |-> arg]
    /\ ret' = r
    /\ UNCHANGED <<redump_db, gid_to_traditional, manual_mappings, folders, source_files,
                   unknown_games, session, prev>>

\* one call of fuzzy_match_game_id on the loaded catalog
FuzzyMatchCall ==
    /\ call = NoCall
    /\ \E c \in MatchInputs : \E r \in fuzzy_match_game_id(c) :
           Returns("fuzzy_match_game_id", c, r)

\* one call of extract_game_id on the loaded catalog
ExtractCall ==
    /\ call = NoCall
    /\ \E path \in ExtractInputs : \E r \in extract_game_id(path) :
           Returns("extract_game_id", path, r)

NextMatch == FuzzyMatchCall \/ ExtractCall

SpecMatch == InitMatch /\ [][NextMatch]_vars

(***************************************************************************)
(* Claims on fuzzy_match_game_id and extract_game_id, under SpecMatch      *)
(***************************************************************************)
IsFuzzyCall == call.op = "fuzzy_match_game_id"
IsExtractCall == call.op = "extract_game_id"
Normal(s) == s = strip(upper(s))
StrippedKey(k) == RemoveChars(k, Separators)

\* C1 as stated: fuzzy_match_game_id(X) returns X for every key X of the catalog,
\* keys in GID form with an alias table loaded included.
C1_EveryKeyMatchesItself ==
    (IsFuzzyCall /\ call.arg \in Keys(redump_db)) => ret = call.arg

\* C1 amended: for every key X of the catalog that is in upper-case, trimmed form,
\* fuzzy_match_game_id(X) returns the alias target when X is a GID key of the alias
\* table, and X itself otherwise.
C1_KeyMatchesItselfOrAlias ==
    (IsFuzzyCall /\ call.arg \in Keys(redump_db) /\ Normal(call.arg)) =>
        ret = IF AliasMatch(call.arg) THEN gid_to_traditional[call.arg] ELSE call.arg

\* C1 witness: a GID key of the catalog was looked up and the alias target came back
C1_AliasResolved ==
    /\ IsFuzzyCall
    /\ call.arg \in Keys(redump_db)
    /\ AliasMatch(call.arg)
    /\ ret = gid_to_traditional[call.arg]
    /\ ret # call.arg

\* C2: with catalog key MK-51190-50 present, fuzzy_match_game_id("MK511905") returns
\* MK-51190-50.
C2_TruncatedIdCompleted ==
    (IsFuzzyCall /\ call.arg = MK511905 /\ HasKey(redump_db, MK_51190_50)) =>
        ret = MK_51190_50

\* the catalog key K at position i is the only key with its separator-free form
OnlyKeyOfItsForm(i) ==
    \A j \in DOMAIN redump_db :
        j # i => StrippedKey(redump_db[j].id) # StrippedKey(redump_db[i].id)

\* C3 as stated: for every catalog key K whose separator-free form no other key
\* shares, fuzzy_match_game_id(K without separators) returns K.
C3_StrippedFormFindsKey ==
    IsFuzzyCall =>
        \A i \in DOMAIN redump_db :
            (call.arg = StrippedKey(redump_db[i].id) /\ OnlyKeyOfItsForm(i)) =>
                ret = redump_db[i].id

\* C3 amended: the same, for candidates that are non-empty, in upper-case trimmed
\* form and not a GID key of the alias table.
C3_NormalStrippedFormFindsKey ==
    (IsFuzzyCall /\ call.arg # <<>> /\ Normal(call.arg) /\ ~AliasMatch(call.arg)) =>
        \A i \in DOMAIN redump_db :
            (call.arg = StrippedKey(redump_db[i].id) /\ OnlyKeyOfItsForm(i)) =>
                ret = redump_db[i].id

\* C3 witness: a separator-free candidate that is no key found its hyphenated key
C3_HyphenatedKeyFound ==
    /\ IsFuzzyCall
    /\ ~HasKey(redump_db, call.arg)
    /\ \E i \in DOMAIN redump_db :
           /\ call.arg = StrippedKey(redump_db[i].id)
           /\ OnlyKeyOfItsForm(i)
           /\ ret = redump_db[i].id

\* C8 as stated: extract_game_id("") and extract_game_id("###") return UNKNOWN for
\* every catalog.
C8_EmptyAndHashesUnknown ==
    (IsExtractCall /\ call.arg \in {<<>>, Hashes}) => ret = UNKNOWN

\* C8 amended: extract_game_id("") returns UNKNOWN for every catalog, and
\* extract_game_id("###") returns UNKNOWN for every catalog none of whose keys has
\* the separator-free form ###.
C8_UnknownUnlessHashesKey ==
    /\ (IsExtractCall /\ call.arg = <<>>) => ret = UNKNOWN
    /\ (IsExtractCall /\ call.arg = Hashes
          /\ \A k \in Keys(redump_db) : StrippedKey(k) # Hashes) => ret = UNKNOWN

\* C8 witness: ### was looked up in a non-empty catalog and UNKNOWN came back
C8_HashesUnknown ==
    IsExtractCall /\ call.arg = Hashes /\ redump_db # <<>> /\ ret = UNKNOWN

\* the position of the first of the tries that fuzzy_match_game_id matches, 0 for none
FirstHit(tries) ==
    LET hits == {i \in DOMAIN tries : fuzzy_match_game_id(tries[i]) \notin {{None}, {<<>>}}}
    IN  IF hits = {} THEN 0 ELSE CHOOSE i \in hits : \A j \in hits : i <= j

InitLoad ==
    /\ redump_db = <<>>
    /\ gid_to_traditional = EmptyDict
    /\ InitRest

\* line 206: one load of a pipe-delimited catalog file
LoadCall ==
    /\ call = NoCall
    /\ \E lines \in CatalogFiles :
           /\ redump_db' = load_pipe_delimited_db(lines).games
           /\ gid_to_traditional' = load_pipe_delimited_db(lines).gid_map
           /\ call' = [op |-> "load_pipe_delimited_db", arg |-> lines]
           /\ ret' = None
    /\ UNCHANGED <<manual_mappings, folders, source_files, unknown_games, session, prev>>

NextLoad == LoadCall

SpecLoad == InitLoad /\ [][NextLoad]_vars

IsLoadCall == call.op = "load_pipe_delimited_db"

\* C19: after load_pipe_delimited_db, for every GID line and every traditional line
\* of the file with the same title, the alias table maps the GID to the traditional
\* id, wherever the two lines stand in the file.
C19_AliasWhereverLinesAppear ==
    IsLoadCall =>
        \A i, j \in DOMAIN call.arg :
            (/\ startswith(call.arg[i].id, GIDPrefix)
             /\ ~startswith(call.arg[j].id, GIDPrefix)
             /\ call.arg[i].title = call.arg[j].title)
            => /\ call.arg[i].id \in DOMAIN gid_to_traditional
               /\ gid_to_traditional[call.arg[i].id] = call.arg[j].id

(***************************************************************************)
(* calculate_match_score (the same function in the reconciliation wizard   *)
(* and in the single-game search dialog)                                   *)
(***************************************************************************)
\* sum of a sequence of integers; sum of f over the elements of a sequence
RECURSIVE SumInts(_)
SumInts(ns) == IF ns = <<>> THEN 0 ELSE Head(ns) + SumInts(Tail(ns))
SumSeq(seq, f(_)) == SumInts([i \in DOMAIN seq |-> f(seq[i])])

\* lines 750-785: the points of the additive branch, before the penalty
Accumulated(search_lower, game_id_lower, title_lower, region_lower) ==
    LET search_words == SelectSeq(split(search_lower), LAMBDA w : Len(w) > 2)
        title_words == split(title_lower)
        exact_word_matches ==
            Len(SelectSeq(search_words, LAMBDA w : w \in Range(title_words)))
        Partial(search_word) ==
            LET P(title_word) ==
                    IF Len(search_word) >= 3
                    THEN IF startswith(title_word, search_word) THEN 200
                         ELSE IF contains(title_word, search_word) THEN 100 ELSE 0
                    ELSE 0
            IN  SumSeq(title_words, P)
    IN    (IF contains(game_id_lower, search_lower) THEN 5000 ELSE 0)
        + (IF contains(title_lower, search_lower) THEN 4000 ELSE 0)
        + (IF search_lower = region_lower THEN 3000 ELSE 0)
        + (IF search_words # <<>>
           THEN 500 * exact_word_matches
                + (IF exact_word_matches = Len(search_words) THEN 2000 ELSE 0)
                + SumSeq(search_words, Partial)
           ELSE 0)

\* lines 787-789
Penalised(search_lower, title) == Len(search_lower) < 10 /\ Len(title) > 50

\* the floor left out
FloorMissing(score) == score

\* line 791: max(0, score)
Floor(score) == IF score > 0 THEN score ELSE 0

\* the two exact-match tests in the other order
ExactMatchTitleFirst(search_lower, game_id_lower, title_lower) ==
    IF search_lower = title_lower THEN 9000
    ELSE IF search_lower = game_id_lower THEN 10000 ELSE 0

\* lines 736-740: the exact matches, 0 when neither holds
ExactMatch(search_lower, game_id_lower, title_lower) ==
    IF search_lower = game_id_lower THEN 10000
    ELSE IF search_lower = title_lower THEN 9000 ELSE 0

calculate_match_score(search_terms, game_id, title, region) ==
    LET search_lower == strip(lower(search_terms))
        game_id_lower == lower(game_id)
        title_lower == lower(title)
        region_lower == lower(region)
        score == Accumulated(search_lower, game_id_lower, title_lower, region_lower)
    IN  IF ExactMatch(search_lower, game_id_lower, title_lower) # 0
        THEN ExactMatch(search_lower, game_id_lower, title_lower)
        ELSE IF startswith(game_id_lower, search_lower) THEN 8000
        ELSE IF startswith(title_lower, search_lower) THEN 7000
        ELSE Floor(IF Penalised(search_lower, title) THEN score - 500 ELSE score)

\* titles of 6 + PadLen characters: over the 50 of the penalty, and exactly 50
PadLen == 45
Pad(n) == [i \in 1..n |-> "z"]
LongTitle == Sonic \o <<" ">> \o Pad(PadLen)
Title50 == Sonic \o <<" ">> \o Pad(PadLen - 1)

\* what filter_games passes: a non-empty trimmed search, and a catalog record
ScoreQueries == {
    T_1201N, <<"t", "-", "1", "2", "0", "1", "n">>, <<"T", "-", "1", "2">>, <<"s", "o", "n">>, <<"S", "o", "n", "i", "c">>, <<"1", "2", "0", "1">>, <<"u", "s">>, <<"s", "o", "n", " ", "x", "y", "z">>, <<"s", "o", "n", "i", "c", " ", "z", "z">>, <<"a", "d", " ", "s", "o", "n", "i", "c">>, <<"z", "z", "z", " ", "s", "o", "n", "i", "c">>,
    <<"a", "d", "v", "e", "n", "t", "u", "r", "e", " ", "s", "o", "n", "i", "c", " ", "e", "x", "t", "r", "a">> }
ScoreIds == {T_1201N, GID028}
ScoreTitles == {Sonic, T_1201N, LongTitle, Title50, <<"S", "o", "n", "i", "c", " ", "A", "d", "v", "e", "n", "t", "u", "r", "e">>}
ScoreRegions == {US, <<"J", "P">>}

InitScore ==
    /\ redump_db = <<>>
    /\ gid_to_traditional = EmptyDict
    /\ InitRest

\* one call of calculate_match_score
ScoreCall ==
    /\ call = NoCall
    /\ \E q \in ScoreQueries, id \in ScoreIds, t \in ScoreTitles, r \in ScoreRegions :
           Returns("calculate_match_score",
                   [search_terms |-> q, game_id |-> id, title |-> t, region |-> r],
                   calculate_match_score(q, id, t, r))

NextScore == ScoreCall

SpecScore == InitScore /\ [][NextScore]_vars

(***************************************************************************)
(* Claims on calculate_match_score, under SpecScore                        *)
(***************************************************************************)
IsScoreCall == call.op = "calculate_match_score"
\* equality ignoring case
SameText(a, b) == lower(a) = lower(b)
\* a starts with b, ignoring case
Begins(a, b) == startswith(lower(a), lower(b))

\* C9: the score is an ordered decision list: query = id (ignoring case) gives
\* 10000, else query = title gives 9000, else id starts with query gives 8000, else
\* title starts with query gives 7000; so score(id, id, title, region) = 10000 even
\* when the id is the title.
C9_OrderedDecisionList ==
    IsScoreCall =>
        LET a == call.arg
            q == a.search_terms
        IN  /\ SameText(q, a.game_id) => ret = 10000
            /\ (~SameText(q, a.game_id) /\ SameText(q, a.title)) => ret = 9000
            /\ (~SameText(q, a.game_id) /\ ~SameText(q, a.title) /\ Begins(a.game_id, q))
                   => ret = 8000
            /\ (~SameText(q, a.game_id) /\ ~SameText(q, a.title) /\ ~Begins(a.game_id, q)
                   /\ Begins(a.title, q)) => ret = 7000
            /\ q = a.game_id => ret = 10000

\* C9 witness: the query is the id and the id is the title, and the score is 10000
C9_IdBeatsTitle ==
    /\ IsScoreCall
    /\ call.arg.search_terms = call.arg.game_id
    /\ call.arg.game_id = call.arg.title
    /\ ret = 10000

\* the call took the additive branch
Additive ==
    LET a == call.arg
        q == a.search_terms
    IN  /\ ~SameText(q, a.game_id) /\ ~SameText(q, a.title)
        /\ ~Begins(a.game_id, q) /\ ~Begins(a.title, q)

Points ==
    Accumulated(lower(call.arg.search_terms), lower(call.arg.game_id),
                lower(call.arg.title), lower(call.arg.region))

\* C10: the score is an integer >= 0; in the additive branch, with a query shorter
\* than 10 and a title longer than 50, it is the accumulated points less 500,
\* floored at 0.
C10_ScoreNeverNegative ==
    IsScoreCall =>
        /\ ret \in Nat
        /\ (Additive /\ Len(call.arg.search_terms) < 10 /\ Len(call.arg.title) > 50) =>
               ret = IF Points >= 500 THEN Points - 500 ELSE 0

\* C10 witness: the penalty met fewer than 500 accumulated points and the score is 0
C10_PenaltyFloored ==
    /\ IsScoreCall
    /\ Additive
    /\ Len(call.arg.search_terms) < 10 /\ Len(call.arg.title) > 50
    /\ Points > 0 /\ Points < 500
    /\ ret = 0

(***************************************************************************)
(* The search dialogs' result list: filter_games. A row of the listbox is  *)
(* kept as the (game_id, title, region) triple the row's text is formatted *)
(* from.                                                                   *)
(***************************************************************************)
\* the characters of the ids in code-point order
CodePoints ==
    <<" ", "!", "#", "-", ".", "/", "0", "1", "2", "3", "4", "5", "6", "7", "8", "9">>
        \o UpperSeq \o <<"_">> \o LowerSeq

\* Python's < and <= on str
RECURSIVE StrLess(_, _)
StrLess(a, b) ==
    IF b = <<>> THEN FALSE
    ELSE IF a = <<>> THEN TRUE
    ELSE IF Head(a) = Head(b) THEN StrLess(Tail(a), Tail(b))
    ELSE IndexIn(CodePoints, Head(a)) < IndexIn(CodePoints, Head(b))

Without(seq, i) == SubSeq(seq, 1, i - 1) \o SubSeq(seq, i + 1, Len(seq))

\* the list of games taken in the catalog's own order
unsorted_items(db) == db

\* sorted(self.redump_db.items()): the records by ascending game id
RECURSIVE sorted_items(_)
sorted_items(db) ==
    IF db = <<>> THEN <<>>
    ELSE LET m == CHOOSE i \in DOMAIN db :
                      \A j \in DOMAIN db : i = j \/ StrLess(db[i].id, db[j].id)
         IN  <<db[m]>> \o sorted_items(Without(db, m))

\* lines 722-726 and 997-1000
all_games == sorted_items(redump_db)

\* scored_games.sort(reverse=True, key=lambda x: x[0]): a stable sort, rows of
\* equal score keep their order
RECURSIVE SortByScore(_)
SortByScore(scored_games) ==
    IF scored_games = <<>> THEN <<>>
    ELSE LET m == CHOOSE i \in DOMAIN scored_games :
                      /\ \A j \in DOMAIN scored_games : scored_games[j].score <= scored_games[i].score
                      /\ \A j \in 1..(i - 1) : scored_games[j].score < scored_games[i].score
         IN  <<scored_games[m]>> \o SortByScore(Without(scored_games, m))

NoMatchesRow == [id |-> None, title |-> None, region |-> None]

\* lines 793-821 and 1056-1079: the rows of the listbox after the search field
\* changed to search_text
filter_games(search_text) ==
    LET search == strip(search_text)
        scored == [i \in DOMAIN all_games |->
                      [score |-> calculate_match_score(search, all_games[i].id,
                                                       all_games[i].title, all_games[i].region),
                       game |-> all_games[i]]]
        scored_games == SelectSeq(scored, LAMBDA x : x.score > 0)
        top == Take(SortByScore(scored_games), 200)
    IN  IF search = <<>> THEN all_games
        ELSE IF scored_games = <<>> THEN <<NoMatchesRow>>
        ELSE [i \in DOMAIN top |-> top[i].game]

SearchLines == {
    Line(US, Sonic, T_1201N), Line(US, Sonic, GID028), Line(US, Virtua, MK_51190_50),
    Line(US, Sonic \o <<" ", "2">>, HDR_0178) }
\* catalog files of up to MaxLines + 1 different lines, in any order
SearchCatalogs ==
    {c \in UNION {[1..n -> SearchLines] : n \in 0..(MaxLines + 1)} :
        \A i, j \in DOMAIN c : i # j => c[i] # c[j]}
SearchTexts == {<<>>, <<" ", "s", "o", "n", "i", "c">>, <<"u", "s">>, <<"5", "1">>, <<"z">>}

InitSearch ==
    /\ \E lines \in SearchCatalogs :
           /\ redump_db = load_database("txt", lines).games
           /\ gid_to_traditional = load_database("txt", lines).gid_map
    /\ InitRest

\* one change of the search field of a dialog opened on the loaded catalog
FilterGames ==
    /\ call = NoCall
    /\ \E search_text \in SearchTexts :
           Returns("filter_games", search_text, filter_games(search_text))

NextSearch == FilterGames

SpecSearch == InitSearch /\ [][NextSearch]_vars

IsFilterCall == call.op = "filter_games"
RowScore(row) == calculate_match_score(call.arg, row.id, row.title, row.region)
CatalogIndex(row) == CHOOSE g \in DOMAIN redump_db : redump_db[g].id = row.id

\* C20 as stated: the rows of the result list are in descending order of score,
\* and rows of equal score are in the order of the catalog (the order its records
\* were loaded in).
C20_TiesInCatalogOrder ==
    (IsFilterCall /\ ret # <<NoMatchesRow>>) =>
        \A i, j \in DOMAIN ret :
            i < j => \/ RowScore(ret[i]) > RowScore(ret[j])
                     \/ /\ RowScore(ret[i]) = RowScore(ret[j])
                        /\ CatalogIndex(ret[i]) < CatalogIndex(ret[j])

\* C20 amended: the rows of the result list are in descending order of score, and
\* rows of equal score are in ascending order of game id (the stable sort runs
\* over the catalog sorted by id).
C20_TiesInIdOrder ==
    (IsFilterCall /\ ret # <<NoMatchesRow>>) =>
        \A i, j \in DOMAIN ret :
            i < j => \/ RowScore(ret[i]) > RowScore(ret[j])
                     \/ /\ RowScore(ret[i]) = RowScore(ret[j])
                        /\ StrLess(ret[i].id, ret[j].id)

\* C20 witness: a search listed three rows, two of one score that the catalog
\* holds in the other order, and one of a lower score
C20_TieAgainstCatalogOrder ==
    /\ IsFilterCall /\ ret # <<NoMatchesRow>>
    /\ strip(call.arg) # <<>>
    /\ \E i, j, k \in DOMAIN ret :
           /\ i < j /\ j < k
           /\ RowScore(ret[i]) = RowScore(ret[j])
           /\ CatalogIndex(ret[j]) < CatalogIndex(ret[i])
           /\ RowScore(ret[j]) > RowScore(ret[k])

(***************************************************************************)
(* analyze_folder_metadata. A folder is [root, vmu, meta]: its path, its   *)
(* .vmu file names, and its other files in os.listdir order, each          *)
(* [name, lines] with the lines read_text_file decoded ("" lines kept);    *)
(* lines = None stands for a file read_text_file gives up on.              *)
(***************************************************************************)
WordChars == UpperLetters \cup LowerLetters \cup Digits \cup {"_"}
TitleChars == WordChars \cup Whitespace \cup {"-", ":", "&", "!", "?", "'"}

\* '\n'.join(lines)
RECURSIVE JoinLines(_)
JoinLines(lines) ==
    IF lines = <<>> THEN <<>>
    ELSE IF Len(lines) = 1 THEN Head(lines)
    ELSE Head(lines) \o <<"\n">> \o JoinLines(Tail(lines))

\* \b([A-Z]{1,3}-\d{4,5}(?:-\d{2})?)\b at the start of s, the character before s
\* being before (<<>> at the start of the text): the length matched, 0 for none
SerialAt(s, before) ==
    LET l == RunLen(s, UpperLetters)
        d == RunLen(Drop(s, l + 1), Digits)
        rest == Drop(s, l + 1 + d)
        Edge(t) == t = <<>> \/ Head(t) \notin WordChars
        suffix == Len(rest) >= 3 /\ rest[1] = "-" /\ rest[2] \in Digits /\ rest[3] \in Digits
                    /\ Edge(Drop(rest, 3))
    IN  IF /\ before = <<>> \/ before[1] \notin WordChars
           /\ l \in 1..3 /\ Len(s) > l /\ s[l + 1] = "-"
           /\ d \in 4..5
        THEN IF suffix THEN l + 1 + d + 3 ELSE IF Edge(rest) THEN l + 1 + d ELSE 0
        ELSE 0

\* re.findall of the serial pattern
RECURSIVE FindSerials(_, _)
FindSerials(s, before) ==
    IF s = <<>> THEN <<>>
    ELSE LET n == SerialAt(s, before)
         IN  IF n > 0 THEN <<Take(s, n)>> \o FindSerials(Drop(s, n), <<s[n]>>)
             ELSE FindSerials(Tail(s), <<Head(s)>>)

\* re.sub(r'[^\w\s\-:&!?\']', ' ', line), then ' '.join(line.split())
RECURSIVE JoinWords(_)
JoinWords(words) ==
    IF words = <<>> THEN <<>>
    ELSE IF Len(words) = 1 THEN Head(words)
    ELSE Head(words) \o <<" ">> \o JoinWords(Tail(words))
CleanLine(line) ==
    JoinWords(split([i \in DOMAIN line |-> IF line[i] \in TitleChars THEN line[i] ELSE " "]))

\* the title hints of the given lines: those of trimmed length lo..hi, cleaned,
\* the ones cleaned to nothing dropped
HintsOf(lines, lo, hi) ==
    LET sized == SelectSeq([i \in DOMAIN lines |-> strip(lines[i])],
                           LAMBDA l : Len(l) >= lo /\ Len(l) <= hi)
    IN  SelectSeq([i \in DOMAIN sized |-> CleanLine(sized[i])], LAMBDA l : l # <<>>)

TitleFileNames == {
    <<"t", "i", "t", "l", "e", ".", "t", "x", "t">>, <<"t", "i", "t", "l", "e">>,
    <<"g", "a", "m", "e", ".", "t", "x", "t">>,
    <<"g", "a", "m", "e", "n", "a", "m", "e", ".", "t", "x", "t">> }

endswith(s, suffix) ==
    Len(suffix) <= Len(s) /\ SubSeq(s, Len(s) - Len(suffix) + 1, Len(s)) = suffix

\* a generic text file read to its end for title hints, the first five lines of
\* the right length kept
FileHintsFirstQualifying(file) ==
    LET filename_lower == lower(file.name)
        content == JoinLines(file.lines)
        serials == FindSerials(content, <<>>)
    IN  IF file.lines = None \/ content = <<>> THEN [serial_hints |-> <<>>, title_hints |-> <<>>]
        ELSE IF filename_lower \in TitleFileNames
        THEN [serial_hints |-> serials, title_hints |-> HintsOf(file.lines, 3, 149)]
        ELSE IF endswith(filename_lower, <<".", "t", "x", "t">>)
        THEN [serial_hints |-> serials,
              title_hints |-> HintsOf(Take(SelectSeq(file.lines,
                                  LAMBDA l : Len(strip(l)) >= 6 /\ Len(strip(l)) <= 99), 5),
                                  6, 99)]
        ELSE IF endswith(filename_lower, <<".", "d", "a", "t">>)
        THEN [serial_hints |-> serials, title_hints |-> <<>>]
        ELSE [serial_hints |-> <<>>, title_hints |-> <<>>]

\* lines 1257-1303: what one file adds to the hints
FileHints(file) ==
    LET filename_lower == lower(file.name)
        content == JoinLines(file.lines)
        serials == FindSerials(content, <<>>)
    IN  IF file.lines = None \/ content = <<>> THEN [serial_hints |-> <<>>, title_hints |-> <<>>]
        ELSE IF filename_lower \in TitleFileNames
        THEN [serial_hints |-> serials, title_hints |-> HintsOf(file.lines, 3, 149)]
        ELSE IF endswith(filename_lower, <<".", "t", "x", "t">>)
        THEN [serial_hints |-> serials, title_hints |-> HintsOf(Take(file.lines, 5), 6, 99)]
        ELSE IF endswith(filename_lower, <<".", "d", "a", "t">>)
        THEN [serial_hints |-> serials, title_hints |-> <<>>]
        ELSE [serial_hints |-> <<>>, title_hints |-> <<>>]

\* the metadata of the folder with the given listing
analyze_folder_metadata(meta) ==
    [serial_hints |-> Concat([i \in DOMAIN meta |-> FileHints(meta[i]).serial_hints]),
     title_hints  |-> Concat([i \in DOMAIN meta |-> FileHints(meta[i]).title_hints])]

(***************************************************************************)
(* intelligent_game_id_detection. A result is the returned triple          *)
(* (id, confidence, source) with two ghost fields: step, the detection     *)
(* step that ended the call (5: none did), and detected, the id that step  *)
(* produced before the manual table was consulted.                         *)
(***************************************************************************)
Result(id, confidence, source, detected, step) ==
    [id |-> id, confidence |-> confidence, source |-> source,
     detected |-> detected, step |-> step]

\* the `if detected_id in self.manual_mappings: return ...` that ends every step;
\* mappings is self.manual_mappings when the call runs, here and below
Override(mappings, detected_id, confidence, source, step) ==
    IF detected_id \in DOMAIN mappings
    THEN Result(mappings[detected_id], "MANUAL", "User Confirmed", detected_id, step)
    ELSE Result(detected_id, confidence, source, detected_id, step)

\* a step that returns without consulting the manual table
NoOverride(detected_id, confidence, source, step) ==
    Result(detected_id, confidence, source, detected_id, step)

\* lines 1316-1325
PathStep(mappings, path_id) == Override(mappings, path_id, "HIGH", "Path", 1)
\* lines 1327-1335
FilenameStep(mappings, file_id) == Override(mappings, file_id, "HIGH", "Filename", 2)

\* the metadata step returning without consulting the manual table
SerialHitNoOverride(mappings, id) == NoOverride(id, "HIGH", "Metadata File", 3)

\* lines 1345-1350 and 1355-1360
SerialHit(mappings, id) == Override(mappings, id, "HIGH", "Metadata File", 3)
\* lines 1402-1408
TitleHit(mappings, id) == Override(mappings, id, "MEDIUM", "Title Match", 4)

\* the confidence of a failed detection set to UNKNOWN
NothingDetectedUnknown == Result(UNKNOWN, "UNKNOWN", "", None, 5)

\* lines 1312-1314 and 1416: no step produced an id
NothingDetected == Result(UNKNOWN, "LOW", "", None, 5)

StopWords == {<<"t", "h", "e">>, <<"a", "n", "d">>, <<"f", "o", "r">>}

\* lines 1370-1395: the similarity of a title hint and a catalog title
TitleHintScore(title_hint, title) ==
    LET db_title == lower(title)
        hint_lower == lower(title_hint)
        common_words == {w \in Range(split(hint_lower)) \cap Range(split(db_title)) :
                            Len(w) > 3 /\ w \notin StopWords}
    IN  IF hint_lower = db_title THEN 1000
        ELSE IF contains(db_title, hint_lower) THEN 800
        ELSE IF contains(hint_lower, db_title) THEN 700
        ELSE Cardinality(common_words) * 100

\* lines 1364-1399: the (hint, record) pair the double loop ends on: the first, in
\* loop order, of the highest score above 0; <<0, 0>> when every score is 0
BestTitleMatch(title_hints) ==
    LET pairs == {<<h, g>> : h \in DOMAIN title_hints, g \in DOMAIN redump_db}
        Score(p) == TitleHintScore(title_hints[p[1]], redump_db[p[2]].title)
        Before(p, q) == p[1] < q[1] \/ (p[1] = q[1] /\ p[2] <= q[2])
        best == {p \in pairs : Score(p) > 0 /\ \A q \in pairs : Score(q) <= Score(p)}
    IN  IF best = {} THEN <<0, 0>>
        ELSE CHOOSE p \in best : \A q \in best : Before(p, q)

\* the title step accepting only a score of 800 or more
TitleStepContained(mappings, title_hints) ==
    LET p == BestTitleMatch(title_hints)
    IN  IF /\ p # <<0, 0>>
           /\ TitleHintScore(title_hints[p[1]], redump_db[p[2]].title) >= 800
        THEN {TitleHit(mappings, redump_db[p[2]].id)}
        ELSE {NothingDetected}

\* lines 1362-1416
TitleStep(mappings, title_hints) ==
    LET p == BestTitleMatch(title_hints)
    IN  IF /\ p # <<0, 0>>
           /\ TitleHintScore(title_hints[p[1]], redump_db[p[2]].title) >= 500
        THEN {TitleHit(mappings, redump_db[p[2]].id)}
        ELSE {NothingDetected}

\* lines 1341-1360: the loop over the serial hints, then the title step
RECURSIVE SerialStep(_, _, _)
SerialStep(mappings, serial_hints, title_hints) ==
    IF serial_hints = <<>> THEN TitleStep(mappings, title_hints)
    ELSE LET hint == Head(serial_hints)
         IN  IF HasKey(redump_db, hint) THEN {SerialHit(mappings, hint)}
             ELSE UNION {IF normalized # UNKNOWN /\ HasKey(redump_db, normalized)
                         THEN {SerialHit(mappings, normalized)}
                         ELSE SerialStep(mappings, Tail(serial_hints), title_hints) :
                         normalized \in extract_game_id(hint)}

\* the resolver trying the file name before the folder path
filename_first_detection(mappings, folder_path, meta, filename) ==
    UNION {IF file_id # UNKNOWN THEN {FilenameStep(mappings, file_id)}
           ELSE UNION {IF path_id # UNKNOWN THEN {PathStep(mappings, path_id)}
                       ELSE SerialStep(mappings, analyze_folder_metadata(meta).serial_hints,
                                                 analyze_folder_metadata(meta).title_hints) :
                       path_id \in extract_game_id(folder_path)} :
           file_id \in extract_game_id(filename)}

\* lines 1310-1416: the set of results the call can return for a folder path, the
\* folder's listing and a file name
intelligent_game_id_detection(mappings, folder_path, meta, filename) ==
    UNION {IF path_id # UNKNOWN THEN {PathStep(mappings, path_id)}
           ELSE UNION {IF file_id # UNKNOWN THEN {FilenameStep(mappings, file_id)}
                       ELSE SerialStep(mappings, analyze_folder_metadata(meta).serial_hints,
                                                 analyze_folder_metadata(meta).title_hints) :
                       file_id \in extract_game_id(filename)} :
           path_id \in extract_game_id(folder_path)}

(***************************************************************************)
(* scan_source_files. A folder is [root, files], files in os.listdir       *)
(* order, each [name, lines].                                              *)
(***************************************************************************)
UnknownPrefix == <<"u", "n", "k", "n", "o", "w", "n", "_">>
VmuSuffix == <<".", "v", "m", "u">>

\* os.path.basename
basename(path) == LET parts == splitOn(path, "/") IN parts[Len(parts)]
\* os.path.join(root, file)
join(root, file) ==
    IF root = <<>> \/ root[Len(root)] = "/" THEN root \o file ELSE root \o <<"/">> \o file

\* the group key without the folder's path
unique_key_name_only(root) == UnknownPrefix \o basename(root)

\* lines 1445-1446: f"unknown_{folder_name}_{root}"
unique_key(root) == UnknownPrefix \o basename(root) \o <<"_">> \o root

\* the file_info filed under the group key even when the manual table resolves it
FileInfoKeyKept(mappings, root, file, r) ==
    [filename |-> file, full_path |-> join(root, file), source_folder |-> root,
     game_id |-> IF r.id = UNKNOWN THEN unique_key(root) ELSE r.id,
     confidence |-> r.confidence, detection_source |-> r.source,
     group |-> IF r.id = UNKNOWN THEN unique_key(root) ELSE None]

\* lines 1441-1473: the file_info of one file, from its detection result; group is
\* the unresolved-group key made for it (None when detection found an id)
FileInfo(mappings, root, file, r) ==
    LET group == IF r.id = UNKNOWN THEN unique_key(root) ELSE None
        game_id == IF r.id = UNKNOWN THEN unique_key(root) ELSE r.id
        mapped == game_id \in DOMAIN mappings
    IN  [filename |-> file, full_path |-> join(root, file), source_folder |-> root,
         game_id |-> IF mapped THEN mappings[game_id] ELSE game_id,
         confidence |-> IF mapped THEN "MANUAL" ELSE r.confidence,
         detection_source |-> IF mapped THEN "User Set" ELSE r.source,
         group |-> group]

\* the (folder index, file name) pairs the walk visits, in order
VmuFiles(tree) ==
    Concat([i \in DOMAIN tree |->
        LET vmu == SelectSeq(tree[i].files, LAMBDA f : endswith(lower(f.name), VmuSuffix))
        IN  [j \in DOMAIN vmu |-> <<i, vmu[j].name>>]])

\* lines 1431-1479: the lists of file_info the walk can build
RECURSIVE ScanFiles(_, _, _)
ScanFiles(mappings, tree, visits) ==
    IF visits = <<>> THEN {<<>>}
    ELSE LET f == tree[Head(visits)[1]]
             infos == {FileInfo(mappings, f.root, Head(visits)[2], r) :
                          r \in intelligent_game_id_detection(mappings, f.root, f.files,
                                                              Head(visits)[2])}
         IN  {<<info>> \o rest : info \in infos,
                                  rest \in ScanFiles(mappings, tree, Tail(visits))}

\* the keys of game_files in insertion order
RECURSIVE GameOrder(_, _)
GameOrder(infos, seen) ==
    IF infos = <<>> THEN <<>>
    ELSE IF Head(infos).game_id \in seen THEN GameOrder(Tail(infos), seen)
    ELSE <<Head(infos).game_id>> \o GameOrder(Tail(infos), seen \cup {Head(infos).game_id})

\* lines 1523-1528
UnknownGames(infos) ==
    SelectSeq(GameOrder(infos, {}), LAMBDA gid : contains(gid, UnknownPrefix))

Remember == IF call = NoCall THEN <<>> ELSE <<[call |-> call, ret |-> ret]>>

\* one scan of the source tree; it returns nothing, and ret records the list built
ScanSourceFiles ==
    /\ folders # <<>>
    /\ ~wizard.open
    /\ prev = <<>>
    /\ \E infos \in ScanFiles(manual_mappings, folders, VmuFiles(folders)) :
           /\ source_files' = infos
           /\ unknown_games' = UnknownGames(infos)
           /\ ret' = infos
    /\ call' = [op |-> "scan_source_files"]
    /\ prev' = Remember
    /\ UNCHANGED <<redump_db, gid_to_traditional, manual_mappings, folders, session>>

\* one call of intelligent_game_id_detection on a file of the tree
Detect ==
    /\ prev = <<>>
    /\ \E v \in Range(VmuFiles(folders)) :
           \E r \in intelligent_game_id_detection(manual_mappings, folders[v[1]].root,
                                                   folders[v[1]].files, v[2]) :
               /\ call' = [op |-> "intelligent_game_id_detection",
                           folder_path |-> folders[v[1]].root, filename |-> v[2]]
               /\ ret' = r
    /\ prev' = Remember
    /\ UNCHANGED <<redump_db, gid_to_traditional, manual_mappings, folders, source_files,
                   unknown_games, session>>

(***************************************************************************)
(* The resolver on one source folder: SpecResolve                          *)
(***************************************************************************)
T_1201X == <<"T", "-", "1", "2", "0", "1", "X">>
File(name, lines) == [name |-> name, lines |-> lines]
Folder(root, files) == [root |-> root, files |-> files]
SaveA == File(<<"a", ".", "v", "m", "u">>, None)
SaveB == File(<<"B", ".", "V", "M", "U">>, None)
Plain == <<"s", "/", "x">>

InfoDat == File(<<"i", "n", "f", "o", ".", "d", "a", "t">>, <<<<"i", "d", " ", "M", "K", "-", "5", "1", "1", "9", "0", "-", "5", "0">>>>)
SaveHDR == File(<<"H", "D", "R", "0", "1", "7", "8", ".", "v", "m", "u">>, None)

\* folders whose id comes from the path, from the file name, from a serial in a
\* metadata file (directly, and after normalisation), from a title, and from
\* nothing; the second one names an id in its path, in its file name and in a
\* metadata file
ResolveFolders == {
    Folder(<<"s", "/", "T", "1", "2", "0", "1", "N">>, <<SaveHDR, InfoDat>>),
    Folder(<<"s", "/", "T", "1", "2", "0", "1", "N">>, <<SaveA>>),
    Folder(<<"s", "/", "t", "1", "2", "0", "1", "5">>, <<SaveA, SaveB>>),
    Folder(Plain, <<SaveHDR, InfoDat>>),
    Folder(Plain, <<SaveA, InfoDat>>),
    Folder(Plain, <<File(<<"n", ".", "t", "x", "t">>, <<<<"T", "-", "1", "2", "0", "1", "5", " ", "T", "-", "1", "2", "0", "1">>>>), SaveA>>),
    Folder(Plain, <<File(<<"T", "I", "T", "L", "E", ".", "T", "X", "T">>, <<<<"#", "S", "o", "n", "i", "c", "!", " ">>, <<>>>>), SaveA>>),
    Folder(Plain, <<File(<<"r", "e", "a", "d", "m", "e", ".", "t", "x", "t">>, <<<<"V", "i", "r", "t", "u", "a", " ", "2", " ">>>>), SaveA>>),
    Folder(Plain, <<SaveA>>) }

ResolveLines == {
    Line(US, Sonic, T_1201N), Line(US, Sonic, GID028), Line(US, Virtua, MK_51190_50),
    Line(US, <<"H">>, HDR_0178), Line(US, <<"W">>, T_12015), Line(US, <<"X">>, T_1201_5) }
ResolveCatalogs == UNION {[1..n -> ResolveLines] : n \in 0..MaxLines}

\* the manual table: empty, or one that maps ids of the catalog
ResolveMappings == {
    EmptyDict,
    [k \in {T_1201N, HDR_0178, MK_51190_50, T_1201_5} |-> T_1201X] }

InitCalls ==
    /\ source_files = <<>>
    /\ unknown_games = <<>>
    /\ InitSession
    /\ call = NoCall
    /\ ret = None
    /\ prev = <<>>

InitResolve ==
    /\ \E lines \in ResolveCatalogs, kind \in {"txt", "json"} :
           /\ redump_db = load_database(kind, lines).games
           /\ gid_to_traditional = load_database(kind, lines).gid_map
    /\ manual_mappings \in ResolveMappings
    /\ \E f \in ResolveFolders : folders = <<f>>
    /\ InitCalls

NextResolve == Detect \/ ScanSourceFiles
NextScan == ScanSourceFiles

SpecResolve == InitResolve /\ [][NextResolve]_vars

(***************************************************************************)
(* The batch scan of a tree of two folders: SpecScan                       *)
(***************************************************************************)
MaxPathLen == 4
PathAlphabet == {"a", "_", "/"}
KeyRoots == UNION {[1..n -> PathAlphabet] : n \in 1..MaxPathLen}

\* os.walk: root is a folder below top, named by top joined with folder names
Below(top, root) ==
    LET prefix == join(top, <<>>)
        names == splitOn(Drop(root, Len(prefix)), "/")
    IN  /\ startswith(root, prefix)
        /\ Len(root) > Len(prefix)
        /\ \A i \in DOMAIN names : names[i] # <<>>

\* the walks of a top folder (one character long) with two folders below it, top
\* down: a folder comes before the folders below it
ScanTrees ==
    UNION {LET below == {r \in KeyRoots : Below(top, r)}
           IN  UNION {{<<Folder(top, <<SaveA>>), Folder(r1, <<SaveA>>),
                        Folder(r2, <<SaveA, SaveB>>)>> :
                          r2 \in {r \in below \ {r1} : ~Below(r, r1)}} :
                      r1 \in below} :
           top \in [1..1 -> PathAlphabet]}

InitScan ==
    /\ redump_db = load_database("txt", <<Line(US, Sonic, T_1201N)>>).games
    /\ gid_to_traditional = EmptyDict
    /\ manual_mappings \in {EmptyDict, [k \in {unique_key(<<"a">>)} |-> T_1201N]}
    /\ folders \in ScanTrees
    /\ InitCalls

SpecScan == InitScan /\ [][NextScan]_vars

(***************************************************************************)
(* Claims on the resolver and the scan                                     *)
(***************************************************************************)
IsDetect == call.op = "intelligent_game_id_detection"
IsScan == call.op = "scan_source_files"

\* C4: whenever a detection step (path, file name, metadata serial, title match)
\* produces an id k that the manual table has an entry for, the resolver returns
\* manual_mappings[k] with confidence MANUAL and source "User Confirmed".
C4_ManualMappingWins ==
    (IsDetect /\ ret.step \in 1..4 /\ ret.detected \in DOMAIN manual_mappings) =>
        /\ ret.id = manual_mappings[ret.detected]
        /\ ret.confidence = "MANUAL"
        /\ ret.source = "User Confirmed"

\* C4 witness: a serial of a metadata file produced a mapped id and the mapping's
\* value was returned in its place
C4_MappedSerialOverridden ==
    /\ IsDetect
    /\ ret.step = 3
    /\ ret.detected \in DOMAIN manual_mappings
    /\ ret.id = T_1201X /\ ret.id # ret.detected
    /\ ret.confidence = "MANUAL"

\* C5 as stated: in every result of the resolver, id UNKNOWN comes with confidence
\* UNKNOWN.
C5_UnknownHasUnknownConfidence ==
    (IsDetect /\ ret.id = UNKNOWN) => ret.confidence = "UNKNOWN"

\* C5 amended: when all four detection steps fail, the resolver returns id UNKNOWN
\* with confidence LOW and an empty source.
C5_UnknownHasLowConfidence ==
    (IsDetect /\ ret.step = 5) =>
        /\ ret.id = UNKNOWN
        /\ ret.confidence = "LOW"
        /\ ret.source = ""

\* C5 witness: with a catalog loaded and hints in the folder, no step found an id
C5_AllStepsFailed ==
    /\ IsDetect
    /\ redump_db # <<>>
    /\ analyze_folder_metadata(folders[1].files).title_hints # <<>>
    /\ ret.step = 5
    /\ ret.id = UNKNOWN

\* C7: resolving the same (folder, file name) pair twice, with the catalog, the
\* alias table, the manual table and the folder unchanged, gives the same
\* (id, confidence, source) both times.
C7_SameResultTwice ==
    (IsDetect /\ prev # <<>> /\ prev[1].call = call) =>
        /\ prev[1].ret.id = ret.id
        /\ prev[1].ret.confidence = ret.confidence
        /\ prev[1].ret.source = ret.source

\* C7 witness: a pair was resolved twice through the stripped comparison, where two
\* catalog keys share the candidate's stripped form
C7_ResolvedTwice ==
    /\ IsDetect /\ prev # <<>> /\ prev[1].call = call
    /\ ret.step = 1
    /\ HasKey(redump_db, T_12015) /\ HasKey(redump_db, T_1201_5)
    /\ ret.detected \in {T_12015, T_1201_5}

\* C17: the resolver tries the folder path, the file name, the metadata serial
\* hints and the title hints in this order and stops at the first that yields an
\* id: a result of the file-name step means the folder path yielded nothing, a
\* result of a later step means path and file name both yielded nothing, a path
\* that yields an id ends the call whatever the file name and the metadata hold;
\* the steps label their id HIGH with "Path", "Filename", "Metadata File" (the
\* manual table's override of C4 aside).
C17_StepsInFixedOrder ==
    IsDetect =>
        LET path_ids == extract_game_id(call.folder_path)
            file_ids == extract_game_id(call.filename)
            label == [i \in 1..3 |-> <<"Path", "Filename", "Metadata File">>[i]]
        IN  /\ UNKNOWN \notin path_ids => ret.step = 1
            /\ ret.step = 1 => ret.detected \in path_ids \ {UNKNOWN}
            /\ ret.step >= 2 => UNKNOWN \in path_ids
            /\ (UNKNOWN \in path_ids /\ UNKNOWN \notin file_ids) => ret.step <= 2
            /\ ret.step = 2 => ret.detected \in file_ids \ {UNKNOWN}
            /\ ret.step >= 3 => UNKNOWN \in file_ids
            /\ (ret.step \in 1..3 /\ ret.detected \notin DOMAIN manual_mappings) =>
                   /\ ret.id = ret.detected
                   /\ ret.confidence = "HIGH"
                   /\ ret.source = label[ret.step]

\* C17 witness: the path, the file name and a metadata file of the folder each
\* name a catalog id, and the path's id was returned with HIGH and "Path"
C17_PathBeatsFilenameAndMetadata ==
    /\ IsDetect
    /\ ret.step = 1 /\ ret.id = T_1201N
    /\ ret.confidence = "HIGH" /\ ret.source = "Path"
    /\ extract_game_id(call.filename) = {HDR_0178}
    /\ analyze_folder_metadata(folders[1].files).serial_hints # <<>>

MaxOf(S) == CHOOSE n \in S : \A m \in S : m <= n

\* the best score of the title hints of the call's folder against the catalog
\* records, by the Scorer and by the title step's own measure
BestScorerScore ==
    LET title_hints == analyze_folder_metadata(folders[1].files).title_hints
    IN  MaxOf({0} \cup {calculate_match_score(title_hints[h], redump_db[g].id,
                                               redump_db[g].title, redump_db[g].region) :
                            h \in DOMAIN title_hints, g \in DOMAIN redump_db})
BestTitleHintScore ==
    LET title_hints == analyze_folder_metadata(folders[1].files).title_hints
    IN  MaxOf({0} \cup {TitleHintScore(title_hints[h], redump_db[g].title) :
                            h \in DOMAIN title_hints, g \in DOMAIN redump_db})

\* C16 as stated: when the first three steps yield nothing, the title step accepts
\* a record exactly when the best Scorer score of a title hint against a catalog
\* record is 500 or more.
C16_AcceptedIffScorerAtLeast500 ==
    (IsDetect /\ ret.step >= 4) => (ret.step = 4 <=> BestScorerScore >= 500)

\* C16 amended: when the first three steps yield nothing, the title step scores
\* every title hint against every catalog title with its own measure (1000 equal,
\* 800 hint within title, 700 title within hint, else 100 for each common word of
\* more than 3 characters other than the, and, for) and accepts a best-scoring
\* record's id with MEDIUM and "Title Match" exactly when that score is 500 or more.
C16_AcceptedIffOwnScoreAtLeast500 ==
    (IsDetect /\ ret.step >= 4) =>
        LET title_hints == analyze_folder_metadata(folders[1].files).title_hints
        IN  /\ ret.step = 4 <=> BestTitleHintScore >= 500
            /\ ret.step = 4 =>
                   /\ \E h \in DOMAIN title_hints, g \in DOMAIN redump_db :
                          /\ TitleHintScore(title_hints[h], redump_db[g].title) = BestTitleHintScore
                          /\ redump_db[g].id = ret.detected
                   /\ ret.detected \notin DOMAIN manual_mappings =>
                          /\ ret.id = ret.detected
                          /\ ret.confidence = "MEDIUM"
                          /\ ret.source = "Title Match"

\* C16 witness: a title hint that contains a catalog title was accepted by the
\* title step although the Scorer gives the pair less than 500
C16_AcceptedBelowScorerThreshold ==
    /\ IsDetect /\ ret.step = 4
    /\ ret.confidence = "MEDIUM" /\ ret.source = "Title Match"
    /\ BestTitleHintScore = 700
    /\ BestScorerScore < 500

Unresolved(infos) == {i \in DOMAIN infos : infos[i].group # None}

\* C6: in a scan, two distinct folders with unresolved files never get the same
\* unresolved-group key, identical base names included; and a folder gets the same
\* key on every scan.
C6_GroupKeysDistinctAndStable ==
    IsScan =>
        /\ \A i, j \in Unresolved(source_files) :
               source_files[i].source_folder # source_files[j].source_folder
                   => source_files[i].group # source_files[j].group
        /\ (prev # <<>> /\ prev[1].call = call) =>
               \A i \in Unresolved(source_files), j \in Unresolved(prev[1].ret) :
                   source_files[i].source_folder = prev[1].ret[j].source_folder
                       => source_files[i].group = prev[1].ret[j].group

\* C6 witness: a second scan left two folders of the same base name unresolved
C6_SameBaseNameTwoFolders ==
    /\ IsScan /\ prev # <<>> /\ prev[1].call = call
    /\ \E i, j \in Unresolved(source_files) :
           /\ source_files[i].source_folder # source_files[j].source_folder
           /\ basename(source_files[i].source_folder) = basename(source_files[j].source_folder)
           /\ source_files[i].group # source_files[j].group

(***************************************************************************)
(* The source tree view and the reconciliation dialogs: SpecReconcile      *)
(***************************************************************************)
\* sorted(game_files.keys())
RECURSIVE SortedIds(_)
SortedIds(ids) ==
    IF ids = {} THEN <<>>
    ELSE LET m == CHOOSE x \in ids : \A y \in ids : x = y \/ StrLess(x, y)
         IN  <<m>> \o SortedIds(ids \ {m})

\* lines 1481-1516: the tree view a scan fills, a game node for each key of
\* game_files in sorted order, below it the names of its files in the order the
\* walk found them; the unresolved groups are left out while hide_unknown is set
SourceTree(infos, hide) ==
    LET shown == {g \in Range(GameOrder(infos, {})) : ~(hide /\ contains(g, UnknownPrefix))}
        games == SortedIds(shown)
    IN  [n \in DOMAIN games |->
            LET files == SelectSeq(infos, LAMBDA f : f.game_id = games[n])
            IN  [text |-> games[n], children |-> [c \in DOMAIN files |-> files[c].filename]]]

\* self.source_tree: every handler that changes source_files or hide_unknown
\* rebuilds it in scan_source_files
source_tree == SourceTree(source_files, hide_unknown)

\* scan_source_files called at the end of a handler that leaves the manual table
\* as mappings
Rescan(mappings) ==
    IF folders = <<>> THEN UNCHANGED <<source_files, unknown_games>>
    ELSE \E infos \in ScanFiles(mappings, folders, VmuFiles(folders)) :
             /\ source_files' = infos
             /\ unknown_games' = UnknownGames(infos)

MaxSaves == 2

\* lines 303-311: open(mappings_file, 'w') and json.dump, an exception printed and
\* swallowed. The file afterwards: the whole table; as it was, when open() fails;
\* a cut text, when the write fails after open() emptied the file
save_manual_mappings(table) ==
    {[state |-> "complete", table |-> table, saves |-> mappings_file.saves + 1],
     [mappings_file EXCEPT !.saves = @ + 1],
     [state |-> "partial", table |-> EmptyDict, saves |-> mappings_file.saves + 1]}

\* the table replaced by the confirmed entries
Replaced(table, mappings) == mappings

\* lines 922-923: self.manual_mappings[unknown_id] = game_id for every entry
Updated(table, mappings) ==
    [k \in DOMAIN table \cup DOMAIN mappings |->
        IF k \in DOMAIN mappings THEN mappings[k] ELSE table[k]]

NoMatchesText ==
    <<"N", "o", " ", "m", "a", "t", "c", "h", "e", "s", " ", "f", "o", "u", "n", "d", " ",
      "-", " ", "t", "r", "y", " ", "d", "i", "f", "f", "e", "r", "e", "n", "t", " ",
      "s", "e", "a", "r", "c", "h", " ", "t", "e", "r", "m", "s">>

\* lines 726, 801, 818 and 821: the text of a row of the wizard's listbox (the
\* padding of the columns, blanks on the right, left out)
RowText(row) ==
    IF row = NoMatchesRow THEN NoMatchesText
    ELSE row.id \o <<" ", "|", " ">> \o row.title \o <<" ", "|", " ">> \o row.region

\* lines 1000, 1062, 1076 and 1079: the text of a row of the single-game dialog
DialogRowText(row) ==
    IF row = NoMatchesRow THEN NoMatchesText
    ELSE row.id \o <<" ", " ", "|", " ", " ">> \o row.title
             \o <<" ", " ", "(">> \o row.region \o <<")">>

\* lines 906-907 and 1086-1087: selected_text.split('|')[0].strip()
SelectedId(selected_text) == strip(Head(splitOn(selected_text, "|")))

\* the search texts typed into a dialog before a row is picked
DialogSearches == {<<>>, <<"z">>}

\* the rows a dialog's listbox can show
ListboxRows == UNION {Range(filter_games(search_text)) : search_text \in DialogSearches}

UnchangedCatalogAndTree ==
    UNCHANGED <<redump_db, gid_to_traditional, folders, db_files, downloader>>

\* what a handler of the session did: the entries it confirmed, and whether it
\* went on to call scan_source_files
Does(op, confirmed, scanned) ==
    /\ call' = [op |-> op, confirmed |-> confirmed, scanned |-> scanned]
    /\ ret' = None
    /\ UNCHANGED prev

\* lines 919-933: with entries to apply, the table is updated and saved and the
\* source folder scanned again
apply_mappings(mappings, op) ==
    /\ wizard' = NoWizard
    /\ IF mappings # EmptyDict
       THEN /\ manual_mappings' = Updated(manual_mappings, mappings)
            /\ mappings_file' \in save_manual_mappings(Updated(manual_mappings, mappings))
            /\ Does(op, mappings, TRUE)
       ELSE /\ UNCHANGED <<manual_mappings, mappings_file>>
            /\ Does(op, mappings, FALSE)

\* lines 623-640 and 961: the wizard opens on the first unresolved group; it is
\* modal, the main window takes no input until it closes
StartBatchReconciliation ==
    /\ ~wizard.open
    /\ unknown_games # <<>>
    /\ mappings_file.saves < MaxSaves
    /\ wizard' = [open |-> TRUE, current_index |-> 0, mappings |-> EmptyDict]
    /\ Does("start_batch_reconciliation", EmptyDict, FALSE)
    /\ UNCHANGED <<manual_mappings, hide_unknown, mappings_file>>

\* the mappings made so far put into the table at every step of the wizard
NextGameStoring(mappings, op) ==
    IF wizard.current_index + 1 >= Len(unknown_games)
    THEN apply_mappings(mappings, op)
    ELSE /\ wizard' = [open |-> TRUE, current_index |-> wizard.current_index + 1,
                       mappings |-> mappings]
         /\ Does(op, EmptyDict, FALSE)
         /\ manual_mappings' = Updated(manual_mappings, mappings)
         /\ UNCHANGED mappings_file

\* lines 884-888 and 913-917: the wizard moved to the next group with the mappings
\* made so far, or past the last one
NextGame(mappings, op) ==
    IF wizard.current_index + 1 >= Len(unknown_games)
    THEN apply_mappings(mappings, op)
    ELSE /\ wizard' = [open |-> TRUE, current_index |-> wizard.current_index + 1,
                       mappings |-> mappings]
         /\ Does(op, EmptyDict, FALSE)
         /\ UNCHANGED <<manual_mappings, mappings_file>>

\* lines 899-917
ConfirmSelection ==
    /\ wizard.open
    /\ UNCHANGED hide_unknown
    /\ \E row \in ListboxRows :
           NextGame(DictPut(wizard.mappings, unknown_games[wizard.current_index + 1],
                            SelectedId(RowText(row))),
                    "confirm_selection")

\* lines 882-888
SkipCurrent ==
    /\ wizard.open
    /\ UNCHANGED hide_unknown
    /\ NextGame(wizard.mappings, "skip_current")

\* lines 890-897: the user answers the question with yes or no
SkipAllRemaining ==
    /\ wizard.open
    /\ UNCHANGED hide_unknown
    /\ \E result \in BOOLEAN :
           IF result
           THEN apply_mappings(wizard.mappings, "skip_all_remaining")
           ELSE /\ Does("skip_all_remaining", EmptyDict, FALSE)
                /\ UNCHANGED <<manual_mappings, mappings_file, wizard>>

\* line 942: the "Finish & Apply All" button
FinishAndApply ==
    /\ wizard.open
    /\ UNCHANGED hide_unknown
    /\ apply_mappings(wizard.mappings, "apply_mappings")

\* lines 946-956: the window is closed; with mappings made, the user is asked
\* whether to apply them
OnClosing ==
    /\ wizard.open
    /\ UNCHANGED hide_unknown
    /\ \E result \in BOOLEAN :
           IF wizard.mappings # EmptyDict /\ result
           THEN apply_mappings(wizard.mappings, "on_closing")
           ELSE /\ wizard' = NoWizard
                /\ Does("on_closing", EmptyDict, FALSE)
                /\ UNCHANGED <<manual_mappings, mappings_file>>

\* lines 607-621 and 1083-1097: "Manually Set Game ID" on a game node of the tree,
\* then a row of the dialog confirmed
ManualSetOnSelect ==
    /\ ~wizard.open
    /\ mappings_file.saves < MaxSaves
    /\ UNCHANGED <<hide_unknown, wizard>>
    /\ \E n \in DOMAIN source_tree, row \in ListboxRows :
           LET current_id == source_tree[n].text
               selected_id == SelectedId(DialogRowText(row))
               table == IF \E i \in DOMAIN source_files : source_files[i].game_id = current_id
                        THEN DictPut(manual_mappings, current_id, selected_id)
                        ELSE manual_mappings
           IN  /\ manual_mappings' = table
               /\ mappings_file' \in save_manual_mappings(table)
               /\ Does("manual_set_game_id_with_search.on_select",
                       DictPut(EmptyDict, current_id, selected_id), TRUE)

\* lines 1116-1122: the catalog records whose id, cut down to A-Z and 0-9,
\* contains the node's or is contained in it
SimilarGames(game_id) ==
    LET Pattern(id) == SelectSeq(upper(id), LAMBDA c : c \in AlnumUpper)
    IN  SelectSeq(redump_db, LAMBDA g : \/ contains(Pattern(g.id), Pattern(game_id))
                                         \/ contains(Pattern(game_id), Pattern(g.id)))

\* lines 607-621 and 1115-1156: "Search Database" on a game node of the tree, then
\* one of the similar games confirmed
SearchSimilarOnSelect ==
    /\ ~wizard.open
    /\ mappings_file.saves < MaxSaves
    /\ UNCHANGED <<hide_unknown, wizard>>
    /\ \E n \in DOMAIN source_tree :
           LET game_id == source_tree[n].text
               matches == SimilarGames(game_id)
           IN  \E m \in DOMAIN matches :
                   /\ manual_mappings' = DictPut(manual_mappings, game_id, matches[m].id)
                   /\ mappings_file' \in save_manual_mappings(
                          DictPut(manual_mappings, game_id, matches[m].id))
                   /\ Does("search_similar_games.on_select",
                           DictPut(EmptyDict, game_id, matches[m].id), TRUE)

\* lines 529-530 and 1160-1161: the checkbox flips the variable, the command scans
ToggleHideUnknown ==
    /\ ~wizard.open
    /\ hide_unknown' = ~hide_unknown
    /\ Rescan(manual_mappings)
    /\ call' = [op |-> "toggle_hide_unknown"]
    /\ ret' = None
    /\ UnchangedCatalogAndTree
    /\ UNCHANGED <<manual_mappings, wizard, mappings_file, worker, output, prev>>

\* lines 931, 1097 and 1156: the call of scan_source_files a handler ends in, with
\* the table as the handler leaves it
ScanAfter ==
    IF call'.scanned THEN Rescan(manual_mappings')
    ELSE UNCHANGED <<source_files, unknown_games>>

\* one handler of the reconciliation session, run to its end
SessionHandler ==
    /\ \/ StartBatchReconciliation
       \/ ConfirmSelection
       \/ SkipCurrent
       \/ SkipAllRemaining
       \/ FinishAndApply
       \/ OnClosing
       \/ ManualSetOnSelect
       \/ SearchSimilarOnSelect
    /\ ScanAfter
    /\ UnchangedCatalogAndTree
    /\ UNCHANGED <<worker, output>>

SessionCatalog == <<Line(US, Sonic, T_1201N)>>
FolderX == <<"s", "/", "x">>
FolderY == <<"s", "/", "y">>
\* a walk: the top folder, two folders nothing is detected in and one named by an id
SessionTree ==
    <<Folder(<<"s">>, <<>>), Folder(<<"s", "/", "T", "1", "2", "0", "1", "N">>, <<SaveB>>),
      Folder(FolderX, <<SaveA, SaveB>>), Folder(FolderY, <<SaveA>>)>>

\* the table an earlier session left: none, or a group resolved to an id that is
\* itself mapped
SessionMappings == {
    EmptyDict,
    [k \in {unique_key(FolderX), T_1201N} |-> IF k = T_1201N THEN T_1201X ELSE T_1201N] }

InitReconcile ==
    /\ redump_db = load_database("txt", SessionCatalog).games
    /\ gid_to_traditional = load_database("txt", SessionCatalog).gid_map
    /\ manual_mappings \in SessionMappings
    /\ folders = SessionTree
    /\ InitCalls

\* line 1168: the session begins with the choice of the source folder, which scans it
SelectSource == call = NoCall /\ ScanSourceFiles

NextReconcile ==
    \/ SelectSource
    \/ SessionHandler

SpecReconcile == InitReconcile /\ [][NextReconcile]_vars

(***************************************************************************)
(* The manual-mapping table over a session.                                *)
(***************************************************************************)
\* the entries the handler of the last step confirmed; a scan confirms none
Confirmed(c) == IF "confirmed" \in DOMAIN c THEN c.confirmed ELSE EmptyDict

\* C12: over scans, wizard confirmations, single-game confirmations and skips no
\* entry of the manual-mapping table is removed, an entry is made or changed only
\* by a confirmation for its key, and a confirmed value is the one stored
C12_EntriesKeptLastWriteWins ==
    [][/\ \A k \in DOMAIN manual_mappings :
             /\ k \in DOMAIN manual_mappings'
             /\ manual_mappings'[k] # manual_mappings[k] => k \in DOMAIN Confirmed(call')
       /\ \A k \in DOMAIN manual_mappings' \ DOMAIN manual_mappings :
             k \in DOMAIN Confirmed(call')
       /\ \A k \in DOMAIN Confirmed(call') :
             /\ k \in DOMAIN manual_mappings'
             /\ manual_mappings'[k] = Confirmed(call')[k]]_vars

\* the entry T-1201N -> T-1201X of the table the session began with, confirmed anew
\* in the only save of the session
C12_EntryOverwritten ==
    /\ call.op = "manual_set_game_id_with_search.on_select"
    /\ mappings_file.saves = 1
    /\ DOMAIN call.confirmed = {T_1201N}
    /\ unique_key(FolderX) \in DOMAIN manual_mappings
    /\ manual_mappings[T_1201N] = call.confirmed[T_1201N]
    /\ manual_mappings[T_1201N] # T_1201X

\* C13: manual_mappings.json always holds a whole table, the previous or the new
\* one, also when a write fails part-way, and once a save has ended it holds the
\* table in memory
C13_PersistedWholeAndAgrees ==
    /\ mappings_file.state # "partial"
    /\ mappings_file.saves > 0 => mappings_file.table = manual_mappings

\* C14: the files of one folder whose detection yields UNKNOWN carry one group
\* key, and while the manual table maps that key to an id G, the scan reports
\* each of them with id G and confidence MANUAL
C14_OneConfirmationResolvesGroup ==
    \A i \in Unresolved(source_files) :
        LET f == source_files[i]
        IN  /\ \A j \in Unresolved(source_files) :
                  source_files[j].source_folder = f.source_folder
                      => source_files[j].group = f.group
            /\ IF f.group \in DOMAIN manual_mappings
               THEN f.game_id = manual_mappings[f.group] /\ f.confidence = "MANUAL"
               ELSE f.game_id = f.group

\* the two files of folder s/x after their group was confirmed, both under the
\* confirmed id
C14_GroupOfTwoResolved ==
    /\ "confirmed" \in DOMAIN call
    /\ call.scanned
    /\ unique_key(FolderX) \in DOMAIN call.confirmed
    /\ \E i, j \in DOMAIN source_files :
           /\ i # j
           /\ source_files[i].group = unique_key(FolderX)
           /\ source_files[j].group = unique_key(FolderX)
           /\ source_files[i].game_id = call.confirmed[unique_key(FolderX)]
           /\ source_files[j].game_id = call.confirmed[unique_key(FolderX)]
           /\ source_files[i].confidence = "MANUAL"
           /\ source_files[j].confidence = "MANUAL"

(***************************************************************************)
(* Conversion: start_conversion and conversion_worker. The output folder   *)
(* is a table from [game_id, channel], the file                            *)
(* Dreamcast/<game_id>/<game_id>-<channel>.vmu, to the path copied there.  *)
(***************************************************************************)
\* lines 1754 and 1762-1764: the items of the tree view, game nodes <<n, 0>> and
\* file nodes <<n, c>>, and a selection in the order selection() lists it, the
\* order of the tree
TreeItems ==
    UNION {{<<n, c>> : c \in 0..Len(source_tree[n].children)} : n \in DOMAIN source_tree}
ItemBefore(a, b) == a[1] < b[1] \/ (a[1] = b[1] /\ a[2] < b[2])
RECURSIVE InTreeOrder(_)
InTreeOrder(items) ==
    IF items = {} THEN <<>>
    ELSE LET first == CHOOSE a \in items : \A b \in items : a = b \/ ItemBefore(a, b)
         IN  <<first>> \o InTreeOrder(items \ {first})

\* lines 1770-1775 and 1780-1785: the first entry of source_files with the file
\* name and the game id, as a list of none or one
FirstEntry(filename, game_id) ==
    LET hits == {i \in DOMAIN source_files : /\ source_files[i].filename = filename
                                              /\ source_files[i].game_id = game_id}
    IN  IF hits = {} THEN <<>>
        ELSE <<source_files[CHOOSE i \in hits : \A j \in hits : i <= j]>>

\* lines 1766-1785: the entries one selected item stands for
ItemEntries(item) ==
    LET node == source_tree[item[1]]
    IN  IF item[2] = 0
        THEN Concat([c \in DOMAIN node.children |-> FirstEntry(node.children[c], node.text)])
        ELSE FirstEntry(node.children[item[2]], node.text)

\* lines 1760, 1772-1774 and 1782-1784: seen_paths, an entry is added once
RECURSIVE Unseen(_, _)
Unseen(entries, seen_paths) ==
    IF entries = <<>> THEN <<>>
    ELSE IF Head(entries).full_path \in seen_paths THEN Unseen(Tail(entries), seen_paths)
    ELSE <<Head(entries)>>
             \o Unseen(Tail(entries), seen_paths \cup {Head(entries).full_path})

\* lines 1759-1785
FilesToConvert(selected) ==
    Unseen(Concat([i \in DOMAIN selected |-> ItemEntries(selected[i])]), {})

\* no entry held back
no_unknown_files(files_to_convert) == <<>>

\* line 1792
unknown_files(files_to_convert) ==
    SelectSeq(files_to_convert, LAMBDA f : contains(f.game_id, UnknownPrefix))

MaxOutput == 2

\* lines 1749-1806: the Convert button, disabled while a worker runs
StartConversion ==
    /\ ~wizard.open
    /\ ~worker.running
    /\ folders # <<>>
    /\ Cardinality(DOMAIN output) < MaxOutput
    /\ \E items \in SUBSET TreeItems :
           LET files_to_convert == FilesToConvert(InTreeOrder(items))
           IN  /\ items # {}
               /\ files_to_convert # <<>>
               /\ call' = [op |-> "start_conversion", selected |-> InTreeOrder(items),
                           files |-> files_to_convert]
               /\ worker' = IF unknown_files(files_to_convert) # <<>> THEN worker
                            ELSE [running |-> TRUE, files_to_convert |-> files_to_convert]
    /\ ret' = None
    /\ UNCHANGED <<redump_db, gid_to_traditional, manual_mappings, folders, source_files,
                   unknown_games, hide_unknown, wizard, mappings_file, output, db_files,
                   downloader, prev>>

Dest(game_id, channel) == [game_id |-> game_id, channel |-> channel]

\* the channel taken as it is, whatever the folder holds
TakenChannel(out, game_id, channel_no) == channel_no

\* lines 1831-1834: the first channel from channel_no on with no file in the way
RECURSIVE FreeChannel(_, _, _)
FreeChannel(out, game_id, channel_no) ==
    IF Dest(game_id, channel_no) \in DOMAIN out
    THEN FreeChannel(out, game_id, channel_no + 1)
    ELSE channel_no

\* lines 1817-1841: the loop; it gives the output folder and the channel each file
\* was copied to
RECURSIVE Copy(_, _, _, _)
Copy(files_to_convert, game_channel_counters, out, copied) ==
    IF files_to_convert = <<>> THEN [output |-> out, copied |-> copied]
    ELSE LET f == Head(files_to_convert)
             start == IF f.game_id \in DOMAIN game_channel_counters
                      THEN game_channel_counters[f.game_id] ELSE 1
             channel_no == FreeChannel(out, f.game_id, start)
         IN  Copy(Tail(files_to_convert),
                  DictPut(game_channel_counters, f.game_id, channel_no + 1),
                  DictPut(out, Dest(f.game_id, channel_no), f.full_path),
                  Append(copied, [full_path |-> f.full_path, game_id |-> f.game_id,
                                  channel |-> channel_no]))

\* lines 1808-1846: the worker thread, which has its own list of files and ends
\* by itself
ConversionWorker ==
    /\ worker.running
    /\ LET done == Copy(worker.files_to_convert, EmptyDict, output, <<>>)
       IN  /\ output' = done.output
           /\ ret' = done.copied
    /\ call' = [op |-> "conversion_worker", files |-> worker.files_to_convert]
    /\ worker' = Idle
    /\ UNCHANGED <<redump_db, gid_to_traditional, manual_mappings, folders, source_files,
                   unknown_games, hide_unknown, wizard, mappings_file, db_files,
                   downloader, prev>>

\* the folder named by an id, its two saves listed in either order, and a folder
\* nothing is detected in
ConvertTrees == {
    <<Folder(<<"s">>, <<>>), Folder(<<"s", "/", "T", "1", "2", "0", "1", "N">>, listing),
      Folder(FolderX, <<SaveA>>)>> : listing \in {<<SaveA, SaveB>>, <<SaveB, SaveA>>} }

\* the unresolved folder left as it is, or resolved in an earlier session; or a
\* table read from manual_mappings.json in which a value is itself a key
ConvertMappings ==
    {EmptyDict, [k \in {unique_key(FolderX)} |-> T_1201N],
     [k \in {T_1201N, T_1201X} |-> IF k = T_1201N THEN T_1201X ELSE T_1201]}

\* the output folder empty, or with a first save of the game from an earlier run
ConvertOutputs ==
    {EmptyDict, [d \in {Dest(T_1201N, 1)} |-> <<"o", "l", "d">>]}

InitConvert ==
    /\ redump_db = load_database("txt", SessionCatalog).games
    /\ gid_to_traditional = load_database("txt", SessionCatalog).gid_map
    /\ manual_mappings \in ConvertMappings
    /\ folders \in ConvertTrees
    /\ source_files = <<>>
    /\ unknown_games = <<>>
    /\ hide_unknown = FALSE
    /\ wizard = NoWizard
    /\ mappings_file = Persisted(manual_mappings)
    /\ worker = Idle
    /\ output \in ConvertOutputs
    /\ db_files = NoDbFiles
    /\ downloader = NoDownload
    /\ call = NoCall
    /\ ret = None
    /\ prev = <<>>

NextConvert ==
    \/ SelectSource
    \/ ToggleHideUnknown
    \/ StartConversion
    \/ ConversionWorker

SpecConvert == InitConvert /\ [][NextConvert]_vars

IsStart == call.op = "start_conversion"
IsWorker == call.op = "conversion_worker"

\* an id that is neither the sentinel nor the group key of a folder of the tree
RealId(game_id) ==
    /\ game_id # UNKNOWN
    /\ \A i \in DOMAIN folders : game_id # unique_key(folders[i].root)

\* C11: start_conversion starts no worker when a file of the selection has the id
\* UNKNOWN or an unresolved-group key, a worker only ever holds files with real
\* ids, and only files with real ids are in the output folder
C11_UnknownBatchRejected ==
    /\ IsStart /\ (\E i \in DOMAIN call.files : ~RealId(call.files[i].game_id))
           => ~worker.running
    /\ worker.running =>
           \A i \in DOMAIN worker.files_to_convert :
               RealId(worker.files_to_convert[i].game_id)
    /\ \A d \in DOMAIN output : RealId(d.game_id)

\* a selection of a resolved and an unresolved file, turned down as a whole
C11_MixedBatchRejected ==
    /\ IsStart
    /\ ~worker.running
    /\ \E i, j \in DOMAIN call.files :
           /\ RealId(call.files[i].game_id)
           /\ ~RealId(call.files[j].game_id)

\* C15: of two files of one game the worker copied, the one whose path comes
\* first in lexicographic order has the lower channel number
C15_ChannelsInPathOrder ==
    IsWorker =>
        \A i, j \in DOMAIN ret :
            /\ ret[i].game_id = ret[j].game_id
            /\ StrLess(ret[i].full_path, ret[j].full_path)
            => ret[i].channel < ret[j].channel

(***************************************************************************)
(* Further claims on extract_game_id and fuzzy_match_game_id, under        *)
(* SpecMatch                                                               *)
(***************************************************************************)
\* C30: extract_game_id applied to a path that is a catalog key X alone (X not an
\* alias of the alias table) returns X, also when another key is a proper prefix
\* of X
C30_KeyAloneExtractsItself ==
    (/\ IsExtractCall
     /\ call.arg \in Keys(redump_db)
     /\ call.arg \notin DOMAIN gid_to_traditional) => ret = call.arg

\* the candidate as fuzzy_match_game_id compares it: uppercased and trimmed
Candidate(potential_id) == strip(upper(potential_id))

\* the call returned at one of the two alias lookups (lines 1543-1547, 1556-1560)
ThroughAlias(potential_id) ==
    \/ AliasMatch(Candidate(potential_id))
    \/ /\ ~DirectMatch(Candidate(potential_id))
       /\ AliasMatch(StrippedKey(Candidate(potential_id)))

DetectedKeys(info) ==
    LET f == CHOOSE f \in Range(folders) : f.root = info.source_folder
    IN  {IF r.id = UNKNOWN THEN unique_key(f.root) ELSE r.id :
            r \in intelligent_game_id_detection(EmptyDict, f.root, f.files, info.filename)}

\* the manual table applied once to a key
OverriddenOnce(k) == IF k \in DOMAIN manual_mappings THEN manual_mappings[k] ELSE k

\* C26: after a scan, the id filed for a file whose detected key is k is
\* manual_mappings[k] when k is in the table and k otherwise, whether k came from
\* a detector or is a group key, and also when manual_mappings[k] is a key itself
C26_OverrideAppliedOnce ==
    call.op = "scan_source_files" =>
        \A i \in DOMAIN source_files :
            source_files[i].game_id \in
                {OverriddenOnce(k) : k \in DetectedKeys(source_files[i])}

\* the entries of source_files filed under a game id
EntriesOf(game_id) == SelectSeq(source_files, LAMBDA f : f.game_id = game_id)

\* the number of entries of a batch with a full path
TimesIn(files, full_path) ==
    Cardinality({i \in DOMAIN files : files[i].full_path = full_path})

\* C27: when one game node is selected, the batch start_conversion builds holds
\* every scanned file resolved to that game exactly once, also when two of them,
\* in different folders, have the same file name
C27_GameNodeSelectsAllItsFiles ==
    (/\ IsStart
     /\ Len(call.selected) = 1
     /\ call.selected[1][2] = 0) =>
        LET game_id == source_tree[call.selected[1][1]].text
        IN  \A i \in DOMAIN source_files :
                source_files[i].game_id = game_id =>
                    TimesIn(call.files, source_files[i].full_path) = 1

\* C28: a run of conversion_worker leaves every file the output folder held as it
\* was, copies the files of its batch, in order, to destinations <id>/<id>-<n>.vmu
\* that differ from one another, with n growing from one file of a game id to the
\* next, and so adds as many files as the batch holds
C28_NoOverwriteDistinctIncreasing ==
    [][(worker.running /\ call'.op = "conversion_worker") =>
          /\ \A d \in DOMAIN output : d \in DOMAIN output' /\ output'[d] = output[d]
          /\ Len(ret') = Len(worker.files_to_convert)
          /\ \A i \in DOMAIN ret' :
                /\ ret'[i].full_path = worker.files_to_convert[i].full_path
                /\ ret'[i].game_id = worker.files_to_convert[i].game_id
                /\ Dest(ret'[i].game_id, ret'[i].channel) \notin DOMAIN output
                /\ output'[Dest(ret'[i].game_id, ret'[i].channel)] = ret'[i].full_path
          /\ \A i, j \in DOMAIN ret' :
                (i < j /\ ret'[i].game_id = ret'[j].game_id) =>
                    ret'[i].channel < ret'[j].channel
          /\ Cardinality(DOMAIN output') =
                Cardinality(DOMAIN output) + Len(worker.files_to_convert)]_vars

\* C28 witness: a batch of two saves of one game was copied beside the save an
\* earlier run left at channel 1, which is still there
C28_TwoCopiedBesideOld ==
    /\ IsWorker
    /\ Len(ret) = 2
    /\ ret[1].game_id = ret[2].game_id
    /\ Dest(ret[1].game_id, 1) \in DOMAIN output
    /\ output[Dest(ret[1].game_id, 1)] = <<"o", "l", "d">>
    /\ ret[1].channel = 2 /\ ret[2].channel = 3

(***************************************************************************)
(* Further claims on the reconciliation session, under SpecReconcile       *)
(***************************************************************************)
\* the step applied the mappings the wizard had collected: apply_mappings ran with
\* a table that is not empty (lines 921-931)
AppliedCollected(c) == "scanned" \in DOMAIN c /\ c.scanned

\* C29: while the wizard is open, a step that does not apply the collected
\* mappings (a confirmation or a skip before the last group, skip-all declined,
\* the window closed with nothing to apply or with the question declined) leaves
\* the table in memory and manual_mappings.json as they are; the table and the
\* file change only in a step that applies the mappings, which closes the wizard
C29_TableChangesOnlyOnApply ==
    [][wizard.open =>
          /\ ~AppliedCollected(call') =>
                 /\ manual_mappings' = manual_mappings
                 /\ mappings_file' = mappings_file
          /\ (manual_mappings' # manual_mappings \/ mappings_file' # mappings_file) =>
                 /\ AppliedCollected(call')
                 /\ ~wizard'.open
                 /\ call'.op \in {"apply_mappings", "confirm_selection", "skip_current",
                                  "skip_all_remaining", "on_closing"}
          /\ (call'.op = "on_closing" /\ ~AppliedCollected(call')) => ~wizard'.open]_vars

\* C29 witness: the wizard is open after a confirmation for a group the table has
\* no entry for, and nothing has been saved
C29_ConfirmedNotYetStored ==
    /\ wizard.open
    /\ call.op = "confirm_selection"
    /\ \E k \in DOMAIN wizard.mappings : k \notin DOMAIN manual_mappings
    /\ mappings_file.saves = 0
    /\ mappings_file = Persisted(manual_mappings)

\* C25: every value a confirmation of the wizard or of a search dialog writes into
\* the manual-mapping table is a key of the catalog, whatever the listbox showed
\* when the row was picked, also when the search had no matches
C25_ConfirmedValuesAreCatalogKeys ==
    \A k \in DOMAIN Confirmed(call) : Confirmed(call)[k] \in Keys(redump_db)

(***************************************************************************)
(* analyze_folder_metadata on a folder with one metadata file:             *)
(* SpecMetadata                                                            *)
(***************************************************************************)
MaxFileLines == 6

\* lines of 5 and of 6 characters and a line of 6 that is cleaned to nothing
Sonic5 == <<"S", "o", "n", "i", "c">>
Sonic6 == <<"S", "o", "n", "i", "c", "!">>
Noise6 == <<"#", "#", "#", "#", "#", "#">>

\* the decoded contents of the file, as lines
MetadataContents ==
    UNION {[1..n -> {Sonic5, Sonic6, Noise6}] : n \in 1..MaxFileLines}

\* a generic text file, a data file and a title file
MetadataNames ==
    {<<"n", ".", "t", "x", "t">>, <<"n", ".", "d", "a", "t">>,
     <<"T", "I", "T", "L", "E", ".", "T", "X", "T">>}

InitMetadata ==
    /\ redump_db = load_database("txt", SessionCatalog).games
    /\ gid_to_traditional = load_database("txt", SessionCatalog).gid_map
    /\ manual_mappings = EmptyDict
    /\ \E name \in MetadataNames, lines \in MetadataContents :
           folders = <<Folder(Plain, <<File(name, lines)>>)>>
    /\ InitCalls

\* one call of analyze_folder_metadata on the folder
AnalyzeFolderMetadata ==
    /\ call = NoCall
    /\ call' = [op |-> "analyze_folder_metadata", folder_path |-> folders[1].root]
    /\ ret' = analyze_folder_metadata(folders[1].files)
    /\ UNCHANGED <<redump_db, gid_to_traditional, manual_mappings, folders, source_files,
                   unknown_games, session, prev>>

NextMetadata == AnalyzeFolderMetadata

SpecMetadata == InitMetadata /\ [][NextMetadata]_vars

IsAnalyze == call.op = "analyze_folder_metadata"
TheFile == folders[1].files[1]
IsGenericText == endswith(lower(TheFile.name), <<".", "t", "x", "t">>)
                     /\ lower(TheFile.name) \notin TitleFileNames
IsData == endswith(lower(TheFile.name), <<".", "d", "a", "t">>)

\* a line qualifies when its trimmed length is 6..99
Qualifies(line) == Len(strip(line)) >= 6 /\ Len(strip(line)) <= 99

\* the hint a qualifying line gives, in a list, empty when it is cleaned to nothing
HintOf(line) ==
    IF CleanLine(strip(line)) = <<>> THEN <<>> ELSE <<CleanLine(strip(line))>>

\* C21: for a generic text or data file the title hints are those of the first 5
\* qualifying lines of the whole file, lines that do not qualify not counting
\* toward the 5
C21_FirstFiveQualifyingLines ==
    (IsAnalyze /\ (IsGenericText \/ IsData)) =>
        LET first == Take(SelectSeq(TheFile.lines, Qualifies), 5)
        IN  ret.title_hints = Concat([i \in DOMAIN first |-> HintOf(first[i])])

\* C21 as the code has it: a generic text file gives the hints of the qualifying
\* lines among its first 5 lines, in order, so a line that does not qualify uses up
\* one of the 5; a data file gives no title hints
C21_QualifyingAmongFirstFiveLines ==
    IsAnalyze =>
        /\ IsGenericText =>
              LET first == Take(TheFile.lines, 5)
                  kept == {i \in DOMAIN first :
                              Qualifies(first[i]) /\ HintOf(first[i]) # <<>>}
              IN  /\ Len(ret.title_hints) = Cardinality(kept)
                  /\ \A i \in kept :
                        <<ret.title_hints[Cardinality({j \in kept : j <= i})]>>
                            = HintOf(first[i])
        /\ IsData => ret.title_hints = <<>>

\* C21 witness: a generic text file whose sixth line qualifies and whose first
\* five hold one that does not; the sixth line gave no hint
C21_SixthLineNotRead ==
    /\ IsAnalyze /\ IsGenericText
    /\ Len(TheFile.lines) = 6
    /\ Qualifies(TheFile.lines[6]) /\ HintOf(TheFile.lines[6]) # <<>>
    /\ ~Qualifies(TheFile.lines[1])
    /\ Len(ret.title_hints) = 4

(***************************************************************************)
(* The catalog over loads, refreshes and downloads: SpecDownload. The      *)
(* download runs in a thread of its own (lines 439-465); its steps are     *)
(* interleaved with the handlers of the main thread.                       *)
(***************************************************************************)
MaxDownloads == 1
MaxCsvRows == 2

GameDbTxt == "vmupro_gamedb.txt"
GameDbJson == "vmupro_gamedb.json"

\* a CSV row that ends before its Title column: DictReader gives None for the
\* columns it lacks
ShortRow == Line(None, None, T_1201X)
IsShort(row) == row.title = None \/ row.region = None

\* the CSV files the download can return
CsvFiles ==
    UNION {[1..n -> {Line(US, Sonic, T_1201N), Line(US, Virtua, MK_51190_50), ShortRow}] :
              n \in 1..MaxCsvRows}

\* the working directory when the program starts: vmupro_gamedb.txt with a GID
\* line and the traditional line of its title, vmupro_gamedb.json of an earlier
\* download, both or neither
StartDbFiles ==
    LET txt == <<Line(US, Sonic, GID028), Line(US, Sonic, T_1201N)>>
        json == <<Line(US, Virtua, MK_51190_50)>>
    IN  {EmptyDict, DictPut(EmptyDict, GameDbTxt, txt), DictPut(EmptyDict, GameDbJson, json),
         DictPut(DictPut(EmptyDict, GameDbTxt, txt), GameDbJson, json)}

\* lines 202-228: load_database with the given files in the working directory;
\* with no file the catalog stays and the alias table is emptied
LoadFrom(files, current) ==
    IF GameDbTxt \in DOMAIN files THEN load_database("txt", files[GameDbTxt])
    ELSE IF GameDbJson \in DOMAIN files THEN load_database("json", files[GameDbJson])
    ELSE [games |-> current, gid_map |-> EmptyDict]

\* what a step of the download leaves alone
MainThreadUnchanged ==
    UNCHANGED <<manual_mappings, folders, source_files, unknown_games, hide_unknown,
                wizard, mappings_file, worker, output, prev>>

Step(op) == call' = [op |-> op] /\ ret' = None

\* lines 187-198: the program has started and load_database has run
InitDownload ==
    /\ db_files \in StartDbFiles
    /\ redump_db = LoadFrom(db_files, <<>>).games
    /\ gid_to_traditional = LoadFrom(db_files, <<>>).gid_map
    /\ manual_mappings = EmptyDict
    /\ folders = <<>>
    /\ source_files = <<>>
    /\ unknown_games = <<>>
    /\ hide_unknown = FALSE
    /\ wizard = NoWizard
    /\ mappings_file = Persisted(manual_mappings)
    /\ worker = Idle
    /\ output = EmptyDict
    /\ downloader = NoDownload
    /\ call = NoCall
    /\ ret = None
    /\ prev = <<>>

\* lines 439-449 and 40-91, 142-149: the Download button, disabled until the
\* download is finalized, starts the thread; the thread fetches the CSV or fails to
StartDownload ==
    /\ downloader.pc = "idle"
    /\ downloader.started < MaxDownloads
    /\ \/ \E csv \in CsvFiles :
             downloader' = [pc |-> "parse", csv |-> csv, rows |-> csv, games |-> <<>>,
                            started |-> downloader.started + 1]
       \/ downloader' = [pc |-> "finalize", csv |-> <<>>, rows |-> <<>>, games |-> <<>>,
                         started |-> downloader.started + 1]
    /\ Step("start_download")
    /\ MainThreadUnchanged
    /\ UNCHANGED <<redump_db, gid_to_traditional, db_files>>

\* a row put at once into the catalog the program reads
ParseRowInPlace ==
    /\ downloader.pc = "parse"
    /\ downloader.rows # <<>>
    /\ ~IsShort(Head(downloader.rows))
    /\ downloader' = [downloader EXCEPT
                          !.games = parse_csv_content(@, <<Head(downloader.rows)>>),
                          !.rows = Tail(@)]
    /\ redump_db' = downloader'.games
    /\ Step("parse_csv_content")
    /\ MainThreadUnchanged
    /\ UNCHANGED <<gid_to_traditional, db_files>>

\* lines 107-129 and 135-140: the thread parses one row into downloader.games; a
\* short row raises, which ends the parse with count 0
ParseRow ==
    /\ downloader.pc = "parse"
    /\ downloader.rows # <<>>
    /\ IF IsShort(Head(downloader.rows))
       THEN downloader' = [downloader EXCEPT !.pc = "finalize"]
       ELSE downloader' = [downloader EXCEPT
                               !.games = parse_csv_content(@, <<Head(downloader.rows)>>),
                               !.rows = Tail(@)]
    /\ Step("parse_csv_content")
    /\ MainThreadUnchanged
    /\ UNCHANGED <<redump_db, gid_to_traditional, db_files>>

\* lines 132-133, 454-456 and 151-167: the parse has ended; with count > 0 the
\* thread writes vmupro_gamedb.json; the write can raise, and with that or with
\* count 0 nothing is installed
SaveDatabase ==
    /\ downloader.pc = "parse"
    /\ downloader.rows = <<>>
    /\ \/ /\ downloader.games # <<>>
          /\ db_files' = DictPut(db_files, GameDbJson, downloader.games)
          /\ downloader' = [downloader EXCEPT !.pc = "install"]
       \/ /\ downloader' = [downloader EXCEPT !.pc = "finalize"]
          /\ UNCHANGED db_files
    /\ Step("save")
    /\ MainThreadUnchanged
    /\ UNCHANGED <<redump_db, gid_to_traditional>>

\* line 457: self.redump_db = downloader.games
InstallCatalog ==
    /\ downloader.pc = "install"
    /\ redump_db' = downloader.games
    /\ downloader' = [downloader EXCEPT !.pc = "finalize"]
    /\ Step("download_worker")
    /\ MainThreadUnchanged
    /\ UNCHANGED <<gid_to_traditional, db_files>>

\* lines 479-487: finalize_download, on the main thread
FinalizeDownload ==
    /\ downloader.pc = "finalize"
    /\ downloader' = [downloader EXCEPT !.pc = "idle"]
    /\ Step("finalize_download")
    /\ MainThreadUnchanged
    /\ UNCHANGED <<redump_db, gid_to_traditional, db_files>>

\* lines 1886-1889: the Refresh Database button
RefreshDatabase ==
    /\ call.op # "refresh_database"
    /\ redump_db' = LoadFrom(db_files, redump_db).games
    /\ gid_to_traditional' = LoadFrom(db_files, redump_db).gid_map
    /\ Step("refresh_database")
    /\ MainThreadUnchanged
    /\ UNCHANGED <<db_files, downloader>>

\* a resolution on the main thread, between two steps of the download
ResolveCandidate ==
    /\ call.op # "fuzzy_match_game_id"
    /\ \E c \in {GID028, T_1201N, MK_51190_50} : \E r \in fuzzy_match_game_id(c) :
           /\ call' = [op |-> "fuzzy_match_game_id", arg |-> c]
           /\ ret' = r
    /\ MainThreadUnchanged
    /\ UNCHANGED <<redump_db, gid_to_traditional, db_files, downloader>>

NextDownload ==
    \/ StartDownload
    \/ ParseRow
    \/ SaveDatabase
    \/ InstallCatalog
    \/ FinalizeDownload
    \/ RefreshDatabase
    \/ ResolveCandidate

SpecDownload == InitDownload /\ [][NextDownload]_vars

\* the catalog a complete parse of the downloaded CSV gives
ParsedWhole(csv) == parse_csv_content(<<>>, csv)

\* C22: however the steps of the download thread are interleaved with refreshes and
\* resolutions on the main thread, the catalog fuzzy_match_game_id reads changes
\* only to a catalog loaded whole from the working directory or to the whole parse
\* of the downloaded CSV: while rows are being parsed, and when the parse or the
\* save fails, it stays the catalog it was
C22_CatalogReplacedWhole ==
    [][redump_db' # redump_db =>
          \/ /\ call'.op = "refresh_database"
             /\ redump_db' = LoadFrom(db_files, redump_db).games
          \/ /\ call'.op = "download_worker"
             /\ \A i \in DOMAIN downloader.csv : ~IsShort(downloader.csv[i])
             /\ redump_db' = ParsedWhole(downloader.csv)]_vars

\* C22 witness: a resolution ran when the thread had parsed the first of two rows
\* into downloader.games, and the catalog it read is not that half-made one
C22_ResolvedWhileParsing ==
    /\ IsFuzzyCall
    /\ downloader.pc = "parse"
    /\ Len(downloader.games) = 1 /\ Len(downloader.rows) = 1
    /\ ParsedWhole(downloader.csv) # downloader.games
    /\ redump_db # downloader.games

\* C23: whatever loads, refreshes and downloads have run, every target of the alias
\* table is a key of the catalog, and so is every id fuzzy_match_game_id returns
C23_AliasTargetsAreCatalogKeys ==
    /\ \A g \in DOMAIN gid_to_traditional : gid_to_traditional[g] \in Keys(redump_db)
    /\ (IsFuzzyCall /\ ret # None) => ret \in Keys(redump_db)

====
